---- MODULE Spec2Model ----
(***************************************************************************)
(* A model of the raymond template engine: the lexer state machine         *)
(* (lexer/lexer.go), the recursive-descent parser (parser/parser.go), the  *)
(* token channel between them, and the Template object (template.go).      *)
(*                                                                         *)
(* Input text is a sequence of one-character strings.  Positions are the   *)
(* 0-based byte offsets of the Go code; in[p+1] is the byte at offset p.    *)
(***************************************************************************)
EXTENDS Integers, Sequences, FiniteSets, TLC

(***************************************************************************)
(* Token kinds (lexer.go, const block).                                    *)
(***************************************************************************)
TokenError == "Error"
TokenEOF == "EOF"
TokenOpen == "Open"
TokenClose == "Close"
TokenOpenRawBlock == "OpenRawBlock"
TokenCloseRawBlock == "CloseRawBlock"
TokenOpenUnescaped == "OpenUnescaped"
TokenCloseUnescaped == "CloseUnescaped"
TokenOpenBlock == "OpenBlock"
TokenOpenEndBlock == "OpenEndBlock"
TokenInverse == "Inverse"
TokenOpenInverse == "OpenInverse"
TokenOpenInverseChain == "OpenInverseChain"
TokenOpenPartial == "OpenPartial"
TokenEndRawBlock == "EndRawBlock"
TokenComment == "Comment"
TokenOpenSexpr == "OpenSexpr"
TokenCloseSexpr == "CloseSexpr"
TokenEquals == "Equals"
TokenData == "Data"
TokenSep == "Sep"
TokenOpenBlockParams == "OpenBlockParams"
TokenCloseBlockParams == "CloseBlockParams"
TokenContent == "Content"
TokenID == "ID"
TokenString == "String"
TokenNumber == "Number"
TokenBoolean == "Boolean"

\* The kind parseRawBlock compares against; the lexer has no such kind and
\* never emits it.
TokenOpenEndRawBlock == "OpenEndRawBlock"

\* const eof = -1: the rune next() returns at end of input.
eof == "<eof>"

ESCAPED_OPEN_MUSTACHE == <<"\\", "{", "{">>
OPEN_MUSTACHE == <<"{", "{">>
CLOSE_MUSTACHE == <<"}", "}">>
CLOSE_STRIP_MUSTACHE == <<"~", "}", "}">>

\* the character U+0060 (a string literal cannot hold it)
BackQuote == "<backquote>"

\* characters not allowed in an identifier
unallowedIDChars ==
  {" ", "\t", "!", "\"", "#", "%", "&", "'", "(", ")", "*", "+", ",", ".",
   "/", ";", "<", "=", ">", "@", "[", "\\", "]", "^", BackQuote, "{", "|", "}", "~"}

\* \s of the regexp package
WhiteSpace == {" ", "\t", "\n", "\f", "\r"}

Digits == {"0", "1", "2", "3", "4", "5", "6", "7", "8", "9"}
HexDigits == Digits \cup {"a", "b", "c", "d", "e", "f", "A", "B", "C", "D", "E", "F"}
Letters ==
  {"a", "b", "c", "d", "e", "f", "g", "h", "i", "j", "k", "l", "m", "n", "o",
   "p", "q", "r", "s", "t", "u", "v", "w", "x", "y", "z",
   "A", "B", "C", "D", "E", "F", "G", "H", "I", "J", "K", "L", "M", "N", "O",
   "P", "Q", "R", "S", "T", "U", "V", "W", "X", "Y", "Z"}

(***************************************************************************)
(* Strings as byte sequences.                                              *)
(***************************************************************************)
\* the byte at offset p, or eof
CharAt(in, p) == IF p >= 0 /\ p < Len(in) THEN in[p + 1] ELSE eof

\* in[a:b]
Slice(in, a, b) == SubSeq(in, a + 1, b)

\* strings.HasPrefix(in[p:], s)
HasPrefix(in, p, s) ==
  /\ p >= 0
  /\ p + Len(s) <= Len(in)
  /\ \A k \in 1..Len(s) : in[p + k] = s[k]

(***************************************************************************)
(* Regular-expression pieces.  Each takes an offset p (or -1 for "no       *)
(* match so far") and returns the offset after the piece, or -1.           *)
(***************************************************************************)
reLit(in, p, s) == IF p >= 0 /\ HasPrefix(in, p, s) THEN p + Len(s) ELSE -1

reOpt(in, p, c) == IF p >= 0 /\ CharAt(in, p) = c THEN p + 1 ELSE p

\* greedy run of characters of set S starting at p
RunEnd(in, p, S) ==
  CHOOSE q \in p..Len(in) :
    /\ \A k \in p..(q - 1) : CharAt(in, k) \in S
    /\ CharAt(in, q) \notin S

reStar(in, p, S) == IF p >= 0 THEN RunEnd(in, p, S) ELSE -1

rePlus(in, p, S) ==
  IF p >= 0 /\ RunEnd(in, p, S) > p THEN RunEnd(in, p, S) ELSE -1

\* length of the match that ends at offset e when it started at p (0: none)
reLen(p, e) == IF e >= 0 THEN e - p ELSE 0

\* `^{{~?` : the common head of the open patterns
reOpenHead(in, p) == reOpt(in, reLit(in, p, OPEN_MUSTACHE), "~")

rOpenRaw(in, p) == reLen(p, reLit(in, p, <<"{", "{", "{", "{">>))
rCloseRaw(in, p) == reLen(p, reLit(in, p, <<"}", "}", "}", "}">>))
rOpenUnescaped(in, p) == reLen(p, reLit(in, reOpenHead(in, p), <<"{">>))
rCloseUnescaped(in, p) ==
  reLen(p, reLit(in, reOpt(in, reLit(in, p, <<"}">>), "~"), CLOSE_MUSTACHE))
rOpenBlock(in, p) == reLen(p, reLit(in, reOpenHead(in, p), <<"#">>))
rOpenEndBlock(in, p) == reLen(p, reLit(in, reOpenHead(in, p), <<"/">>))
rOpenPartial(in, p) == reLen(p, reLit(in, reOpenHead(in, p), <<">">>))

\* `^({{~?\^\s*~?}}|{{~?\s*else\s*~?}})` : first alternative first
rInverse(in, p) ==
  LET caret == reLit(in, reOpt(in, reStar(in, reLit(in, reOpenHead(in, p), <<"^">>),
                                           WhiteSpace), "~"), CLOSE_MUSTACHE)
      else == reLit(in, reOpt(in, reStar(in, reLit(in, reStar(in, reOpenHead(in, p),
                                                               WhiteSpace),
                                                 <<"e", "l", "s", "e">>),
                                          WhiteSpace), "~"), CLOSE_MUSTACHE)
  IN  IF caret >= 0 THEN caret - p ELSE reLen(p, else)

rOpenInverse(in, p) == reLen(p, reLit(in, reOpenHead(in, p), <<"^">>))
rOpenInverseChain(in, p) ==
  reLen(p, reLit(in, reStar(in, reOpenHead(in, p), WhiteSpace), <<"e", "l", "s", "e">>))
rOpen(in, p) == reLen(p, reOpt(in, reOpenHead(in, p), "&"))
rClose(in, p) == reLen(p, reLit(in, reOpt(in, p, "~"), CLOSE_MUSTACHE))
rOpenBlockParams(in, p) ==
  reLen(p, reLit(in, rePlus(in, reLit(in, p, <<"a", "s">>), WhiteSpace), <<"|">>))
rOpenCommentDash(in, p) ==
  reLen(p, reStar(in, reLit(in, reOpenHead(in, p), <<"!", "-", "-">>), WhiteSpace))
rCloseCommentDash(in, p) ==
  reLen(p, reLit(in, reOpt(in, reLit(in, reStar(in, p, WhiteSpace), <<"-", "-">>), "~"),
                 CLOSE_MUSTACHE))
rOpenComment(in, p) ==
  reLen(p, reStar(in, reLit(in, reOpenHead(in, p), <<"!">>), WhiteSpace))
rCloseComment(in, p) ==
  reLen(p, reLit(in, reOpt(in, reStar(in, p, WhiteSpace), "~"), CLOSE_MUSTACHE))

\* `^[^unallowedIDChars]+`
rID(in, p) ==
  LET e == CHOOSE q \in p..Len(in) :
             /\ \A k \in p..(q - 1) : CharAt(in, k) \notin unallowedIDChars
             /\ (q = Len(in) \/ CharAt(in, q) \in unallowedIDChars)
  IN  e - p

(***************************************************************************)
(* The Lexer object: [input, pos, width, start, closeComment].  The token  *)
(* channel and nextFunc are state variables of the pipeline below.  A      *)
(* scanning step is a record [l, out, next]: the lexer after the step, the *)
(* tokens the step sends on the channel, in order, and the state function  *)
(* it returns ("nil" ends run(), "panic" is a Go panic).                   *)
(***************************************************************************)
\* the value of an expression bound once: The({ e : x \in {v} }) is e with v for x
The(S) == CHOOSE x \in S : TRUE

NewLexer(input) ==
  [input |-> input, pos |-> 0, width |-> 0, start |-> 0, closeComment |-> "nil"]

\* the rune l.next() returns
nextRune(l) == CharAt(l.input, l.pos)

\* l.next(): the lexer after the call (every rune of the model is one byte)
next(l) ==
  IF l.pos >= Len(l.input)
  THEN [l EXCEPT !.width = 0]
  ELSE [l EXCEPT !.width = 1, !.pos = l.pos + 1]

backup(l) == [l EXCEPT !.pos = l.pos - l.width]

\* l.peek(): next() then backup()
peek(l) == backup(next(l))

ignore(l) == [l EXCEPT !.start = l.pos]

\* l.accept(valid): the lexer after the call
accept(l, valid) == IF nextRune(l) \in valid THEN next(l) ELSE backup(next(l))

\* l.acceptRun(valid)
acceptRun(l, valid) ==
  The({ [l EXCEPT !.pos = q, !.width = IF q >= Len(l.input) THEN 0 ELSE 1]
      : q \in {RunEnd(l.input, l.pos, valid)} })

isString(l, str) == HasPrefix(l.input, l.pos, str)

\* the token value taken one rune late: l.input[l.start+1 : l.pos]
emitLate(s, kind) ==
  [s EXCEPT !.out = Append(s.out, [kind |-> kind, pos |-> s.l.start,
                                   val |-> IF s.l.pos > s.l.start
                                           THEN Slice(s.l.input, s.l.start + 1, s.l.pos)
                                           ELSE <<>>]),
            !.l = [s.l EXCEPT !.start = s.l.pos]]

\* l.emit(kind) on a step
emit(s, kind) ==
  [s EXCEPT !.out = Append(s.out, [kind |-> kind, pos |-> s.l.start,
                                   val |-> Slice(s.l.input, s.l.start, s.l.pos)]),
            !.l = [s.l EXCEPT !.start = s.l.pos]]

\* the lexer ending the stream with EOF where it should report the error
errorfAsEOF(s, msg) ==
  [s EXCEPT !.out = Append(s.out, [kind |-> TokenEOF, pos |-> s.l.start, val |-> <<>>]),
            !.next = "nil"]

\* l.errorf(msg): sends the Error token and returns nil
errorf(s, msg) ==
  [s EXCEPT !.out = Append(s.out, [kind |-> TokenError, pos |-> s.l.start,
                                   val |-> <<msg>>]),
            !.next = "nil"]

step(l, nxt) == [l |-> l, out |-> <<>>, next |-> nxt]

isIgnorable(r) == r \in {" ", "\t", "\n"}

isAlphaNumeric(r) == r = "_" \/ r \in Letters \/ r \in Digits

\* scanning content (ie: not between mustaches)
lexContent(l) ==
  The({ IF c.next # "nil"
        THEN (IF c.l.pos > c.l.start THEN emit(step(c.l, c.next), TokenContent)
              ELSE step(c.l, c.next))
        ELSE The({ IF nextRune(c.l) # eof
                   THEN step(l3, "lexContent")
                   ELSE emit(IF l3.pos > l3.start THEN emit(step(l3, "nil"), TokenContent)
                             ELSE step(l3, "nil"),
                             TokenEOF)
                 : l3 \in {next(c.l)} })
      : c \in { IF isString(l, ESCAPED_OPEN_MUSTACHE)
                \* l.backup(); r := l.next()
                THEN [l |-> next(backup(l)),
                      next |-> IF nextRune(backup(l)) # "\\"
                               THEN "lexEscapedOpenMustache" ELSE "nil"]
                ELSE IF rOpenCommentDash(l.input, l.pos) # 0
                THEN [l |-> [l EXCEPT !.closeComment = "rCloseCommentDash"],
                      next |-> "lexComment"]
                ELSE IF rOpenComment(l.input, l.pos) # 0
                THEN [l |-> [l EXCEPT !.closeComment = "rCloseComment"],
                      next |-> "lexComment"]
                ELSE IF isString(l, OPEN_MUSTACHE)
                THEN [l |-> l, next |-> "lexOpenMustache"]
                ELSE [l |-> l, next |-> "nil"] } })

\* scanning \{{
lexEscapedOpenMustache(l) ==
  step(acceptRun(ignore(next(l)), {"{"}), "lexContent")

\* the candidates tried in the reverse order: the last one that matched
lastMatch(cands) ==
  IF \E k \in 1..Len(cands) : cands[k][2] # 0
  THEN cands[CHOOSE k \in 1..Len(cands) :
               /\ cands[k][2] # 0
               /\ \A j \in (k + 1)..Len(cands) : cands[j][2] = 0]
  ELSE <<"none", 0>>

\* the first candidate <<kind, length>> whose regexp matched, in source order
firstMatch(cands) ==
  IF \E k \in 1..Len(cands) : cands[k][2] # 0
  THEN cands[CHOOSE k \in 1..Len(cands) :
               /\ cands[k][2] # 0
               /\ \A j \in 1..(k - 1) : cands[j][2] = 0]
  ELSE <<"none", 0>>

\* scanning {{
lexOpenMustache(l) ==
  The({ IF tok[1] = "none"
        THEN step(l, "panic")
        ELSE emit(step([l EXCEPT !.pos = l.pos + tok[2]],
                       IF tok[1] = TokenInverse THEN "lexContent" ELSE "lexExpression"),
                  tok[1])
      : tok \in { firstMatch(<< <<TokenOpenRawBlock, rOpenRaw(l.input, l.pos)>>,
                                <<TokenOpenUnescaped, rOpenUnescaped(l.input, l.pos)>>,
                                <<TokenOpenBlock, rOpenBlock(l.input, l.pos)>>,
                                <<TokenOpenEndBlock, rOpenEndBlock(l.input, l.pos)>>,
                                <<TokenOpenPartial, rOpenPartial(l.input, l.pos)>>,
                                <<TokenInverse, rInverse(l.input, l.pos)>>,
                                <<TokenOpenInverse, rOpenInverse(l.input, l.pos)>>,
                                <<TokenOpenInverseChain, rOpenInverseChain(l.input, l.pos)>>,
                                <<TokenOpen, rOpen(l.input, l.pos)>> >>) } })

\* scanning }} or ~}}
lexCloseMustache(l) ==
  The({ IF tok[1] = "none"
        THEN step(l, "panic")
        ELSE emit(step([l EXCEPT !.pos = l.pos + tok[2]], "lexContent"), tok[1])
      : tok \in { firstMatch(<< <<TokenCloseRawBlock, rCloseRaw(l.input, l.pos)>>,
                                <<TokenCloseUnescaped, rCloseUnescaped(l.input, l.pos)>>,
                                <<TokenClose, rClose(l.input, l.pos)>> >>) } })

\* scanning inside mustaches
lexExpression(l) ==
  The({ IF isString(l, CLOSE_MUSTACHE) \/ isString(l, CLOSE_STRIP_MUSTACHE)
        THEN (IF l.pos > l.start THEN emit(step(l, "lexCloseMustache"), TokenContent)
              ELSE step(l, "lexCloseMustache"))
        ELSE IF n # 0
        THEN emit(step([l EXCEPT !.pos = l.pos + n], "lexExpression"), TokenOpenBlockParams)
        ELSE IF isString(l, <<"t", "r", "u", "e">>)
        THEN emit(step([l EXCEPT !.pos = l.pos + 4], "lexExpression"), TokenBoolean)
        ELSE IF isString(l, <<"f", "a", "l", "s", "e">>)
        THEN emit(step([l EXCEPT !.pos = l.pos + 5], "lexExpression"), TokenBoolean)
        ELSE IF r = eof THEN errorf(step(l1, "nil"), "Unclosed expression")
        ELSE IF isIgnorable(r) THEN step(l1, "lexIgnorable")
        ELSE IF r = "(" THEN emit(step(l1, "lexExpression"), TokenOpenSexpr)
        ELSE IF r = ")" THEN emit(step(l1, "lexExpression"), TokenCloseSexpr)
        ELSE IF r = "=" THEN emit(step(l1, "lexExpression"), TokenEquals)
        ELSE IF r = "@" THEN emit(step(l1, "lexExpression"), TokenData)
        ELSE IF r = "\"" \/ r = "'" THEN step(backup(l1), "lexString")
        ELSE IF r = "/" \/ r = "." THEN emit(step(l1, "lexExpression"), TokenSep)
        ELSE IF r = "|" THEN emit(step(l1, "lexExpression"), TokenCloseBlockParams)
        ELSE IF r = "+" \/ r = "-" \/ r \in Digits THEN step(backup(l1), "lexNumber")
        ELSE IF r \notin unallowedIDChars THEN step(backup(l1), "lexIdentifier")
        ELSE errorf(step(l1, "nil"), "Unexpected character in expression")
      : r \in {nextRune(l)}, l1 \in {next(l)}, n \in {rOpenBlockParams(l.input, l.pos)} })

\* lexComment() that never advances over the comment text
lexCommentStuck(l) ==
  The({ IF n # 0
        THEN emit(step([l EXCEPT !.pos = l.pos + n], "lexContent"), TokenComment)
        ELSE IF nextRune(l) = eof THEN errorf(step(next(l), "nil"), "Unclosed comment")
        ELSE step(l, "lexComment")
      : n \in { IF l.closeComment = "rCloseCommentDash"
                THEN rCloseCommentDash(l.input, l.pos)
                ELSE rCloseComment(l.input, l.pos) } })

\* scanning {{!-- or {{!
lexComment(l) ==
  The({ IF n # 0
        THEN emit(step([l EXCEPT !.pos = l.pos + n], "lexContent"), TokenComment)
        ELSE IF nextRune(l) = eof THEN errorf(step(next(l), "nil"), "Unclosed comment")
        ELSE step(next(l), "lexComment")
      : n \in { IF l.closeComment = "rCloseCommentDash"
                THEN rCloseCommentDash(l.input, l.pos)
                ELSE rCloseComment(l.input, l.pos) } })

\* scans all following ignorable characters
lexIgnorable(l) ==
  step(ignore(acceptRun(l, {" ", "\t", "\n"})), "lexExpression")

RECURSIVE scanString(_, _, _)
\* the loop of lexString from offset p: <<closing delimiter found, offset after it>>
scanString(in, p, delim) ==
  IF CharAt(in, p) = "\\"
  THEN (IF CharAt(in, p + 1) \notin {eof, "\n"}
        THEN scanString(in, p + 2, delim)
        ELSE <<FALSE, p>>)
  ELSE IF CharAt(in, p) \in {eof, "\n"} THEN <<FALSE, p>>
  ELSE IF CharAt(in, p) = delim THEN <<TRUE, p + 1>>
  ELSE scanString(in, p + 1, delim)

lexString(l) ==
  The({ The({ IF ~sc[1]
              THEN errorf(step(l1, "nil"), "Unterminated string")
              \* remove end delimiter, emit string, skip end delimiter
              ELSE The({ [s1 EXCEPT !.l = ignore(next(s1.l))]
                       : s1 \in { emit(step(backup([l1 EXCEPT !.pos = sc[2], !.width = 1]),
                                            "lexExpression"),
                                       TokenString) } })
            : sc \in {scanString(l.input, l1.pos, nextRune(l))} })
      : l1 \in {ignore(next(l))} })

\* the digit set of scanNumber after the optional sign: [l, digits]
scanNumberBase(a) ==
  IF nextRune(a) = "0"
  THEN The({ [l |-> accept(z, {"x", "X"}),
              digits |-> IF nextRune(z) \in {"x", "X"} THEN HexDigits ELSE Digits]
           : z \in {accept(a, {"0"})} })
  ELSE [l |-> accept(a, {"0"}), digits |-> Digits]

\* l.scanNumber(): the lexer after the call and the result
scanNumber(l) ==
  The({ The({ The({ The({ The({ IF isAlphaNumeric(nextRune(i))
                                THEN [l |-> next(i), ok |-> FALSE]
                                ELSE [l |-> peek(i), ok |-> TRUE]
                              : i \in {accept(g, {"i"})} })
                        : g \in { IF nextRune(f) \in {"e", "E"}
                                  THEN acceptRun(accept(accept(f, {"e", "E"}), {"+", "-"}),
                                                 Digits)
                                  ELSE accept(f, {"e", "E"}) } })
                  : f \in { IF nextRune(d) = "."
                            THEN acceptRun(accept(d, {"."}), x.digits)
                            ELSE accept(d, {"."}) } })
            : d \in {acceptRun(x.l, x.digits)} })
      : x \in {scanNumberBase(accept(l, {"+", "-"}))} })

\* the second scanNumber of a complex number: 1+2i
lexNumberImag(l, sn2) ==
  IF ~sn2.ok \/ CharAt(l.input, sn2.l.pos - 1) # "i"
  THEN errorf(step(sn2.l, "nil"), "bad number syntax")
  ELSE emit(step(sn2.l, "lexExpression"), TokenNumber)

lexNumber(l) ==
  The({ IF ~sn.ok
        THEN errorf(step(sn.l, "nil"), "bad number syntax")
        ELSE IF nextRune(sn.l) \in {"+", "-"}
        THEN The({ lexNumberImag(l, sn2) : sn2 \in {scanNumber(peek(sn.l))} })
        ELSE emit(step(peek(sn.l), "lexExpression"), TokenNumber)
      : sn \in {scanNumber(l)} })

\* scans an ID
lexIdentifier(l) ==
  The({ IF n = 0
        THEN step(l, "panic")
        ELSE emit(step([l EXCEPT !.pos = l.pos + n], "lexExpression"), TokenID)
      : n \in {rID(l.input, l.pos)} })

\* l.nextFunc(l)
lexStep(fn, l) ==
  CASE fn = "lexContent" -> lexContent(l)
    [] fn = "lexEscapedOpenMustache" -> lexEscapedOpenMustache(l)
    [] fn = "lexOpenMustache" -> lexOpenMustache(l)
    [] fn = "lexCloseMustache" -> lexCloseMustache(l)
    [] fn = "lexExpression" -> lexExpression(l)
    [] fn = "lexComment" -> lexComment(l)
    [] fn = "lexIgnorable" -> lexIgnorable(l)
    [] fn = "lexString" -> lexString(l)
    [] fn = "lexNumber" -> lexNumber(l)
    [] fn = "lexIdentifier" -> lexIdentifier(l)

RECURSIVE run(_, _, _)
\* Lexer.run() with a consumer that receives every token: the tokens sent,
\* the state function that ended the loop and how it ended
run(fn, l, out) ==
  The({ IF s.next \in {"nil", "panic"}
        THEN [tokens |-> out \o s.out, last |-> fn, end |-> s.next]
        ELSE run(s.next, s.l, out \o s.out)
      : s \in {lexStep(fn, l)} })

\* Scan(input) followed by NextToken() until the lexer stops
Scan(input) == run("lexContent", NewLexer(input), <<>>)

Kinds(toks) == [k \in 1..Len(toks) |-> toks[k].kind]

(***************************************************************************)
(* AST nodes (ast package), as records.                                    *)
(***************************************************************************)
\* a nil node / a nil error
NULL == [type |-> "nil"]
nil == "nil"

NewProgram(stmts) == [type |-> "Program", Statements |-> stmts, BlockParams |-> <<>>]
NewContentStatement(val) == [type |-> "Content", Value |-> val]
NewCommentStatement(val) == [type |-> "Comment", Value |-> val]
NewMustacheStatement(e) ==
  [type |-> "Mustache", Path |-> e.path, Params |-> e.params, Hash |-> e.hash]
NewBlockStatement(e) ==
  [type |-> "Block", Path |-> e.path, Params |-> e.params, Hash |-> e.hash,
   Program |-> NULL, Inverse |-> NULL]
NewPartialStatement(name, e) ==
  [type |-> "Partial", Name |-> name, Params |-> e.params, Hash |-> e.hash]
NewSubExpression(e) ==
  [type |-> "SubExpression", Path |-> e.path, Params |-> e.params, Hash |-> e.hash]
NewPathExpression(data) ==
  [type |-> "Path", Original |-> <<>>, Parts |-> <<>>, Depth |-> 0, Data |-> data]
NewBooleanLiteral(val, original) ==
  [type |-> "Boolean", Value |-> val, Original |-> original]
NewNumberLiteral(val, original) ==
  [type |-> "Number", Value |-> val, Original |-> original]
NewStringLiteral(val) == [type |-> "String", Value |-> val]
NewHash(pairs) == [type |-> "Hash", Pairs |-> pairs]
NewHashPair(key, val) == [type |-> "HashPair", Key |-> key, Val |-> val]

\* PathExpression.Part(part): appends the part to the original text; ".."
\* raises the depth, "." and "this" add no segment
Part(node, part) ==
  LET n == [node EXCEPT !.Original = node.Original \o part]
  IN  IF part = <<".", ".">> THEN [n EXCEPT !.Depth = n.Depth + 1]
      ELSE IF part = <<".">> \/ part = <<"t", "h", "i", "s">> THEN n
      ELSE [n EXCEPT !.Parts = Append(n.Parts, part)]

\* PathExpression.Sep(separator)
Sep(node, separator) == [node EXCEPT !.Original = node.Original \o separator]

\* strconv.Atoi(val): <<ok, value>>; an optional sign and decimal digits
DigitVal(c) == CHOOSE d \in 0..9 : Digits \cap {c} = {ToString(d)}

RECURSIVE DecVal(_)
DecVal(ds) == IF ds = <<>> THEN 0 ELSE 10 * DecVal(SubSeq(ds, 1, Len(ds) - 1)) + DigitVal(ds[Len(ds)])

Atoi(val) ==
  LET signed == val # <<>> /\ val[1] \in {"+", "-"}
      ds == IF signed THEN Tail(val) ELSE val
  IN  IF ds # <<>> /\ \A k \in 1..Len(ds) : ds[k] \in Digits
      THEN <<TRUE, IF signed /\ val[1] = "-" THEN 0 - DecVal(ds) ELSE DecVal(ds)>>
      ELSE <<FALSE, 0>>

\* rOpenComment.ReplaceAllString(val, ""), with rOpenComment = `^\{\{~?!-?-?`
stripOpenComment(val) ==
  LET a == reLit(val, reOpt(val, reLit(val, 0, OPEN_MUSTACHE), "~"), <<"!">>)
      b == reOpt(val, reOpt(val, a, "-"), "-")
  IN  IF a >= 0 THEN Slice(val, b, Len(val)) ELSE val

\* rCloseComment.ReplaceAllString(val, ""), with rCloseComment = `-?-?~?\}\}$`
stripCloseComment(val) ==
  LET n == Len(val)
      a == IF HasPrefix(val, n - 2, CLOSE_MUSTACHE) THEN n - 2 ELSE -1
      b == IF CharAt(val, a - 1) = "~" THEN a - 1 ELSE a
      c == IF CharAt(val, b - 1) = "-" THEN b - 1 ELSE b
      d == IF c < b /\ CharAt(val, c - 1) = "-" THEN c - 1 ELSE c
  IN  IF a >= 0 THEN Slice(val, 0, d) ELSE val

(***************************************************************************)
(* The Parser object over the tokens ts received from the lexer so far:    *)
(* tokens ts[i..n] are p.tokens (fetched, not consumed), n is the number   *)
(* of NextToken calls made.  need records that ensure() called NextToken   *)
(* for a token that has not been received; oob that p.tokens[index] was    *)
(* read beyond the buffer (a run-time panic).                              *)
(***************************************************************************)
NoToken == [kind |-> "<none>", pos |-> -1, val |-> <<>>]

New(ts) ==
  [ts |-> ts, i |-> 1, n |-> 0, lexOver |-> FALSE, need |-> FALSE, oob |-> FALSE,
   maxbuf |-> 0]

\* len(p.tokens)
buflen(p) == p.n - p.i + 1

\* one round of the loop of ensure(): tok := p.lex.NextToken(); queue it
fetch(p) ==
  IF p.lexOver \/ p.need
  THEN p
  ELSE IF p.n >= Len(p.ts)
  THEN [p EXCEPT !.need = TRUE]
  ELSE [p EXCEPT !.n = p.n + 1,
                 !.lexOver = p.ts[p.n + 1].kind \in {TokenEOF, TokenError},
                 !.maxbuf = IF buflen(p) + 1 > p.maxbuf THEN buflen(p) + 1 ELSE p.maxbuf]

\* ensure() that fetches nothing
ensureNothing(p, index) == p

\* Ensure there is token to parse at given index (index is 0 or 1)
ensure(p, index) ==
  The({ IF buflen(a) < index + 1 THEN fetch(a) ELSE a
      : a \in {IF buflen(p) < index + 1 THEN fetch(p) ELSE p} })

\* p.have(nb): the parser after the call and the answer
have(p, nb) ==
  The({ [p |-> q, ok |-> buflen(q) >= nb] : q \in {ensure(p, nb - 1)} })

\* p.nextAt(index): the parser after the call and the token returned;
\* p.tokens[index] beyond the buffer is a run-time panic
nextAt(p, index) ==
  The({ IF buflen(q) > index
        THEN [p |-> q, tok |-> q.ts[q.i + index]]
        ELSE [p |-> [q EXCEPT !.oob = TRUE], tok |-> NoToken]
      : q \in {ensure(p, index)} })

\* p.next()
pnext(p) == nextAt(p, 0)

\* p.shift(): the parser after the call and the token returned
shift(p) ==
  The({ IF buflen(q) > 0
        THEN [p |-> [q EXCEPT !.i = q.i + 1], tok |-> q.ts[q.i]]
        ELSE [p |-> [q EXCEPT !.oob = TRUE], tok |-> NoToken]
      : q \in {ensure(p, 0)} })

\* p.err(): the parser after the call and the error
perr(p) ==
  The({ [p |-> t.p, err |-> IF t.tok.kind = TokenError THEN "Lexer error" ELSE nil]
      : t \in {pnext(p)} })

\* what a parsing function returns
Ret(p, node, err) == [p |-> p, node |-> node, err |-> err]

\* `return result, p.err()`
RetErr(p, node) == The({ Ret(e.p, node, e.err) : e \in {perr(p)} })

\* p.have(1) && p.next().Kind is one of kinds
isTokenIn(p, kinds) ==
  The({ [p |-> h.p, ok |-> h.ok /\ h.p.ts[h.p.i].kind \in kinds] : h \in {have(p, 1)} })

isToken(p, kind) == isTokenIn(p, {kind})

isSexpr(p) == isToken(p, TokenOpenSexpr)
isPathSep(p) == isToken(p, TokenSep)
isID(p) == isToken(p, TokenID)
isBlockParams(p) == isToken(p, TokenOpenBlockParams)
isInverse(p) == isToken(p, TokenOpenInverse)
isInverseChain(p) == isToken(p, TokenOpenInverseChain)

\* Returns true if next token starts a statement
isStatement(p) ==
  isTokenIn(p, {TokenOpen, TokenOpenUnescaped, TokenOpenBlock, TokenOpenInverse,
                TokenOpenRawBlock, TokenOpenPartial, TokenContent, TokenComment})

\* Returns true if next tokens represent a `helperName`
isHelperName(p) ==
  The({ [p |-> t.p,
         ok |-> t.tok.kind \in {TokenBoolean, TokenNumber, TokenString, TokenData, TokenID}]
      : t \in {pnext(p)} })

\* isHashSegment() asking for a third token
isHashSegment3(p) ==
  The({ [p |-> h.p,
         ok |-> /\ buflen(h.p) >= 2
                /\ h.p.ts[h.p.i].kind = TokenID
                /\ h.p.ts[h.p.i + 1].kind = TokenEquals]
      : h \in {have(p, 3)} })

\* returns true if next tokens represents a `hashSegment`
isHashSegment(p) ==
  The({ [p |-> h.p,
         ok |-> /\ h.ok
                /\ h.p.ts[h.p.i].kind = TokenID
                /\ h.p.ts[h.p.i + 1].kind = TokenEquals]
      : h \in {have(p, 2)} })

\* Returns true if next tokens represent a `param`
isParam(p) ==
  The({ The({ IF b.ok
              THEN The({ [p |-> c.p, ok |-> ~c.ok] : c \in {isHashSegment(b.p)} })
              ELSE b
            : b \in {IF a.ok THEN a ELSE isHelperName(a.p)} })
      : a \in {isSexpr(p)} })

(***************************************************************************)
(* The grammar.  A parsing function returns [p, node, err]: the parser     *)
(* after the call, the node and the error (nil: none).                    *)
(***************************************************************************)
RECURSIVE ParseProgram(_)
RECURSIVE parseSexpr(_)

\* content : CONTENT
parseContent(p) ==
  The({ IF t.tok.kind # TokenContent
        THEN Ret(t.p, NULL, "Failed to parse content.")
        ELSE Ret(t.p, NewContentStatement(t.tok.val), nil)
      : t \in {shift(p)} })

\* COMMENT
parseComment(p) ==
  The({ IF t.tok.kind # TokenComment
        THEN Ret(t.p, NULL, "Failed to parse comment.")
        ELSE Ret(t.p, NewCommentStatement(stripCloseComment(stripOpenComment(t.tok.val))),
                 nil)
      : t \in {shift(p)} })

RECURSIVE pathLoop(_, _)
\* the `for p.isPathSep()` loop of parsePath
pathLoop(p, result) ==
  The({ IF ~s.ok
        THEN RetErr(s.p, result)
        ELSE The({ The({ IF id.tok.kind # TokenID
                         THEN Ret(id.p, NULL,
                                  "Failed to parse path, expecting ID after separator")
                         ELSE pathLoop(id.p, Part(Sep(result, sep.tok.val), id.tok.val))
                       : id \in {shift(sep.p)} })
                 : sep \in {shift(s.p)} })
      : s \in {isPathSep(p)} })

\* path : pathSegments
parsePath(p, data) ==
  The({ IF t.tok.kind # TokenID
        THEN Ret(t.p, NULL, "Failed to parse path, expecting ID")
        ELSE pathLoop(t.p, Part(NewPathExpression(data), t.tok.val))
      : t \in {shift(p)} })

\* dataName : DATA pathSegments
parseDataName(p) ==
  The({ IF t.tok.kind # TokenData
        THEN Ret(t.p, NULL, "Failed to parse data")
        ELSE parsePath(t.p, TRUE)
      : t \in {shift(p)} })

\* the NUMBER case of parseHelperName, n being strconv.Atoi(tok.Val)
parseNumberName(p, val, n) ==
  IF ~n[1]
  THEN Ret(shift(p).p, NULL, "strconv.Atoi: invalid syntax")
  ELSE RetErr(shift(p).p, NewNumberLiteral(n[2], val))

\* the path and dataName cases of parseHelperName
parsePathName(sub) ==
  IF sub.err # nil THEN Ret(sub.p, NULL, sub.err) ELSE RetErr(sub.p, sub.node)

\* helperName : path | dataName | STRING | NUMBER | BOOLEAN | UNDEFINED | NULL
parseHelperName(p) ==
  The({ IF t.tok.kind = TokenBoolean
        THEN RetErr(shift(t.p).p,
                    NewBooleanLiteral(t.tok.val = <<"t", "r", "u", "e">>, t.tok.val))
        ELSE IF t.tok.kind = TokenNumber
        THEN parseNumberName(t.p, t.tok.val, Atoi(t.tok.val))
        ELSE IF t.tok.kind = TokenString
        THEN RetErr(shift(t.p).p, NewStringLiteral(t.tok.val))
        ELSE IF t.tok.kind = TokenData
        THEN parsePathName(parseDataName(t.p))
        ELSE parsePathName(parsePath(t.p, FALSE))
      : t \in {pnext(p)} })

\* Parses `helperName | sexpr`
parseHelperNameOrSexpr(p) ==
  The({ IF s.ok THEN parseSexpr(s.p) ELSE parseHelperName(s.p) : s \in {isSexpr(p)} })

\* param : helperName | sexpr
parseParam(p) == parseHelperNameOrSexpr(p)

\* partialName : helperName | sexpr
parsePartialName(p) == parseHelperNameOrSexpr(p)

RECURSIVE paramsLoop(_, _)
\* parses `param*`; node is the list of params
paramsLoop(p, result) ==
  The({ IF ~a.ok
        THEN RetErr(a.p, result)
        ELSE The({ IF param.err # nil
                   THEN Ret(param.p, <<>>, param.err)
                   ELSE paramsLoop(param.p, Append(result, param.node))
                 : param \in {parseParam(a.p)} })
      : a \in {isParam(p)} })

parseParams(p) == paramsLoop(p, <<>>)

\* hashSegment : ID EQUALS param
parseHashSegment(p) ==
  The({ IF a.tok.kind # TokenID
        THEN Ret(a.p, NULL, "Failed to parse Hash Segment. Expected an ID")
        ELSE The({ IF b.tok.kind # TokenEquals
                   THEN Ret(b.p, NULL, "Failed to parse Hash Segment. Expected an EQUAL")
                   ELSE The({ IF param.err # nil
                              THEN Ret(param.p, NULL, param.err)
                              ELSE RetErr(param.p, NewHashPair(a.tok.val, param.node))
                            : param \in {parseParam(b.p)} })
                 : b \in {shift(a.p)} })
      : a \in {shift(p)} })

RECURSIVE hashLoop(_, _)
\* hash : hashSegment+
hashLoop(p, pairs) ==
  The({ IF h.ok
        THEN The({ IF pair.err # nil
                   THEN Ret(pair.p, NULL, pair.err)
                   ELSE hashLoop(pair.p, Append(pairs, pair.node))
                 : pair \in {parseHashSegment(h.p)} })
        ELSE IF pairs = <<>> THEN Ret(pnext(h.p).p, NULL, "Failed to parse Hash")
        ELSE RetErr(h.p, NewHash(pairs))
      : h \in {isHashSegment(p)} })

parseHash(p) == hashLoop(p, <<>>)

\* Parses `param* hash?`: [p, params, hash, err]
parseExpressionParamsHash(p) ==
  The({ IF ps.err # nil
        THEN [p |-> ps.p, params |-> <<>>, hash |-> NULL, err |-> ps.err]
        ELSE The({ [p |-> hash.p, params |-> ps.node, hash |-> hash.node,
                    err |-> hash.err]
                 : hash \in { The({ IF h.ok THEN parseHash(h.p) ELSE Ret(h.p, NULL, nil)
                                  : h \in {isHashSegment(ps.p)} }) } })
      : ps \in { The({ IF a.ok THEN parseParams(a.p) ELSE Ret(a.p, <<>>, nil)
                     : a \in {isParam(p)} }) } })

RECURSIVE parseExpression(_)
\* Parses an expression `helperName param* hash?`: [p, path, params, hash, err]
parseExpression(p) ==
  The({ IF helperName.err # nil
        THEN [p |-> helperName.p, path |-> helperName.node, params |-> <<>>,
              hash |-> NULL, err |-> helperName.err]
        ELSE The({ [p |-> rest.p, path |-> helperName.node, params |-> rest.params,
                    hash |-> rest.hash, err |-> rest.err]
                 : rest \in {parseExpressionParamsHash(helperName.p)} })
      : helperName \in {parseHelperName(p)} })

\* sexpr : OPEN_SEXPR helperName param* hash? CLOSE_SEXPR
parseSexpr(p) ==
  The({ IF t.tok.kind # TokenOpenSexpr
        THEN Ret(t.p, NULL, "Failed to parse SubExpression. Expected TokenOpenSexpr")
        ELSE The({ IF e.err # nil
                   THEN Ret(e.p, NULL, e.err)
                   ELSE The({ IF c.tok.kind # TokenCloseSexpr
                              THEN Ret(c.p, NULL,
                                       "Failed to parse SubExpression. Expected TokenCloseSexpr")
                              ELSE RetErr(c.p, NewSubExpression(e))
                            : c \in {shift(e.p)} })
                 : e \in {parseExpression(t.p)} })
      : t \in {shift(p)} })

RECURSIVE blockParamsLoop(_, _)
\* ID+ of parseBlockParams; node is the list of names
blockParamsLoop(p, result) ==
  The({ IF a.ok
        THEN The({ blockParamsLoop(t.p, Append(result, t.tok.val)) : t \in {shift(a.p)} })
        ELSE Ret(a.p, result, nil)
      : a \in {isID(p)} })

\* blockParams : OPEN_BLOCK_PARAMS ID+ CLOSE_BLOCK_PARAMS
parseBlockParams(p) ==
  The({ IF t.tok.kind # TokenOpenBlockParams
        THEN Ret(t.p, <<>>, "Failed to parse Block Params. Expected a TokenOpenBlockParams")
        ELSE The({ IF ids.node = <<>>
                   THEN Ret(ids.p, <<>>, "Failed to parse Block Params. Missing ID")
                   ELSE The({ IF c.tok.kind # TokenCloseBlockParams
                              THEN Ret(c.p, <<>>,
                                       "Failed to parse Block Params. Expected a TokenCloseBlockParams")
                              ELSE RetErr(c.p, ids.node)
                            : c \in {shift(ids.p)} })
                 : ids \in {blockParamsLoop(t.p, <<>>)} })
      : t \in {shift(p)} })

\* mustache : OPEN helperName param* hash? CLOSE
\*          | OPEN_UNESCAPED helperName param* hash? CLOSE_UNESCAPED
parseMustache(p) ==
  The({ The({ IF e.err # nil
              THEN Ret(e.p, NULL, e.err)
              ELSE The({ IF c.tok.kind # (IF t.tok.kind = TokenOpenUnescaped
                                          THEN TokenCloseUnescaped ELSE TokenClose)
                         THEN Ret(c.p, NULL, "Failed to parse Mustache Statement.")
                         ELSE RetErr(c.p, NewMustacheStatement(e))
                       : c \in {shift(e.p)} })
            : e \in {parseExpression(t.p)} })
      : t \in {shift(p)} })

\* partial : OPEN_PARTIAL partialName param* hash? CLOSE
parsePartial(p) ==
  The({ IF name.err # nil
        THEN Ret(name.p, NULL, name.err)
        ELSE The({ IF e.err # nil
                   THEN Ret(e.p, NULL, e.err)
                   ELSE The({ IF c.tok.kind # TokenClose
                              THEN Ret(c.p, NULL,
                                       "Failed to parse Partial Statement. Expected TokenClose")
                              ELSE RetErr(c.p, NewPartialStatement(name.node, e))
                            : c \in {shift(e.p)} })
                 : e \in {parseExpressionParamsHash(name.p)} })
      : name \in {parsePartialName(shift(p).p)} })

\* what parseOpenBlock returns: (result, blockParams, inverse, err)
openBlockRet(p, node, params, err) ==
  [p |-> p, node |-> node, blockParams |-> params, inverse |-> FALSE, err |-> err]

\* openBlock : OPEN_BLOCK helperName param* hash? blockParams? CLOSE
\* openInverse : OPEN_INVERSE helperName param* hash? blockParams? CLOSE
\* returns [p, node, blockParams, inverse, err]
parseOpenBlock(p) ==
  The({ IF e.err # nil
        THEN openBlockRet(e.p, NewBlockStatement(e), <<>>, e.err)
        ELSE The({ IF bp.err # nil
                   THEN openBlockRet(bp.p, NewBlockStatement(e), <<>>, bp.err)
                   ELSE The({ openBlockRet(c.p, NewBlockStatement(e), bp.node,
                                           IF c.tok.kind # TokenClose
                                           THEN "Failed to parse open block. Unexpected name"
                                           ELSE nil)
                            : c \in {shift(bp.p)} })
                 : bp \in { The({ IF b.ok THEN parseBlockParams(b.p) ELSE Ret(b.p, <<>>, nil)
                                : b \in {isBlockParams(e.p)} }) } })
      : e \in {parseExpression(shift(p).p)} })

\* the comparison left out: every pair of names passes
namesNeverMismatch(openName, closeName) == FALSE

\* openName.Original != closeName.Original
namesMismatch(openName, closeName) == openName.Original # closeName.Original

\* the kind parseBlock requires of the token that closes `{{/name`
blockCloseKind == TokenCloseRawBlock

\* the end of parseBlock from `closeBlock : OPEN_ENDBLOCK helperName CLOSE`,
\* p1 being the parser after the inverse test and result the block parsed so far
parseCloseBlock(p1, result) ==
  The({ IF t.tok.kind # TokenOpenEndBlock
        THEN Ret(t.p, NULL, "Failed to parse block. Expected OpenEndBlock")
        ELSE The({ IF endId.err # nil THEN Ret(endId.p, NULL, endId.err)
                   ELSE IF endId.node.type # "Path"
                   THEN Ret(endId.p, NULL,
                            "Failed to parse block. Unexpected name in end block")
                   ELSE IF result.Path.type # "Path"
                   THEN Ret(endId.p, NULL, "Failed to parse block. Unexpected name")
                   ELSE IF namesMismatch(result.Path, endId.node)
                   THEN Ret(endId.p, NULL, "Open and end blocks names mismatch")
                   ELSE The({ IF c.tok.kind # blockCloseKind
                              THEN Ret(c.p, NULL,
                                       "Failed to parse block. Expected CloseRawBlock")
                              ELSE RetErr(c.p, result)
                            : c \in {shift(endId.p)} })
                 : endId \in {parseHelperName(t.p)} })
      : t \in {shift(p1)} })

\* block : openBlock program inverseChain? closeBlock
\*       | openInverse program inverseAndProgram? closeBlock
parseBlock(p) ==
  The({ IF ob.err # nil
        THEN Ret(ob.p, NULL, ob.err)
        ELSE The({ IF prog.err # nil
                   THEN Ret(prog.p, NULL, prog.err)
                   \* inverseAndProgram? / inverseChain? : @todo in the code
                   ELSE parseCloseBlock(
                          IF ob.inverse THEN isInverse(prog.p).p
                          ELSE isInverseChain(prog.p).p,
                          [ob.node EXCEPT
                             !.Program = [prog.node EXCEPT !.BlockParams = ob.blockParams]])
                 : prog \in {ParseProgram(ob.p)} })
      : ob \in {parseOpenBlock(p)} })

\* the end of parseRawBlock from `endRawBlock : END_RAW_BLOCK helperName
\* CLOSE_RAW_BLOCK`, e being the open expression and content the block's content
parseEndRawBlock(e, content) ==
  The({ IF t.tok.kind # TokenOpenEndRawBlock
        THEN Ret(t.p, NULL, "Failed to parse raw block. Expected OpenEndRawBlock")
        ELSE The({ IF endId.err # nil THEN Ret(endId.p, NULL, endId.err)
                   ELSE IF endId.node.type # "Path"
                   THEN Ret(endId.p, NULL,
                            "Failed to parse raw block. Unexpected name in end block")
                   ELSE IF namesMismatch(e.path, endId.node)
                   THEN Ret(endId.p, NULL, "Open and end blocks names mismatch")
                   ELSE The({ IF c.tok.kind # TokenCloseRawBlock
                              THEN Ret(c.p, NULL,
                                       "Failed to parse raw block. Expected CloseRawBlock")
                              ELSE Ret(c.p,
                                       [NewBlockStatement(e) EXCEPT
                                          !.Program = NewProgram(<<content.node>>)],
                                       nil)
                            : c \in {shift(endId.p)} })
                 : endId \in {parseHelperName(t.p)} })
      : t \in {shift(content.p)} })

\* rawBlock : openRawBlock content endRawBlock
parseRawBlock(p) ==
  The({ IF e.err # nil THEN Ret(e.p, NULL, e.err)
        ELSE IF e.path.type # "Path"
        THEN Ret(e.p, NULL, "Failed to parse raw block. Unexpected name in open block")
        ELSE The({ IF t.tok.kind # TokenCloseRawBlock
                   THEN Ret(t.p, NULL, "Failed to parse raw block. Expected CloseRawBlock")
                   ELSE The({ IF content.err # nil
                              THEN Ret(content.p, NULL, content.err)
                              ELSE parseEndRawBlock(e, content)
                            : content \in {parseContent(t.p)} })
                 : t \in {shift(e.p)} })
      : e \in {parseExpression(shift(p).p)} })

\* statement : mustache | block | rawBlock | partial | content | COMMENT
parseStatement(p) ==
  The({ The({ IF r.err # nil THEN Ret(r.p, NULL, r.err) ELSE RetErr(r.p, r.node)
            : r \in { CASE t.tok.kind \in {TokenOpen, TokenOpenUnescaped} ->
                             parseMustache(t.p)
                        [] t.tok.kind \in {TokenOpenBlock, TokenOpenInverse} ->
                             parseBlock(t.p)
                        [] t.tok.kind = TokenOpenRawBlock -> parseRawBlock(t.p)
                        [] t.tok.kind = TokenOpenPartial -> parsePartial(t.p)
                        [] t.tok.kind = TokenContent -> parseContent(t.p)
                        [] t.tok.kind = TokenComment -> parseComment(t.p)
                        [] OTHER -> Ret(t.p, NULL, "Failed to parse statement") } })
      : t \in {pnext(p)} })

RECURSIVE programLoop(_, _)
\* the `for p.isStatement()` loop of ParseProgram and its `return result, p.err()`
programLoop(p, stmts) ==
  The({ IF ~s.ok
        THEN RetErr(s.p, NewProgram(stmts))
        ELSE The({ IF node.err # nil
                   THEN Ret(node.p, NULL, node.err)
                   ELSE programLoop(node.p, Append(stmts, node.node))
                 : node \in {parseStatement(s.p)} })
      : s \in {isStatement(p)} })

\* program : statement*
ParseProgram(p) == programLoop(p, <<>>)

\* what New(input).ParseProgram() did, given the parser r.p it left and what
\* it returned
parseOutcome(r, status) ==
  [status |-> status,
   node |-> IF status = "returned" THEN r.node ELSE NULL,
   err |-> IF status = "returned" THEN r.err ELSE status,
   fetched |-> r.p.n,
   maxbuf |-> r.p.maxbuf]

\* New(input).ParseProgram() on the tokens ts received so far.  status is
\* "need" when the parser is blocked in NextToken, "panic" when it read
\* p.tokens beyond its length, "returned" when ParseProgram returned.
ParseTokens(ts) ==
  The({ parseOutcome(r, IF r.p.need THEN "need" ELSE IF r.p.oob THEN "panic"
                        ELSE "returned")
      : r \in {ParseProgram(New(ts))} })

\* parser.Parse(input), the lexer goroutine supplying every token asked for
Parse(input) == ParseTokens(Scan(input).tokens)

(***************************************************************************)
(* The evaluator: renders a Program against input data and the template's  *)
(* registries.  A rendering is [out, err]: the output buffer and the       *)
(* error the evaluation panicked with (nil: none).                         *)
(***************************************************************************)
Undefined == <<>>

\* structural lookup of a field of the input data; a missing field is undefined
Lookup(data, name) == IF name \in DOMAIN data THEN data[name] ELSE Undefined

EscapeChar(c) ==
  CASE c = "&" -> <<"&", "a", "m", "p", ";">>
    [] c = "<" -> <<"&", "l", "t", ";">>
    [] c = ">" -> <<"&", "g", "t", ";">>
    [] c = "\"" -> <<"&", "q", "u", "o", "t", ";">>
    [] c = "'" -> <<"&", "a", "p", "o", "s", ";">>
    [] OTHER -> <<c>>

RECURSIVE Escape(_)
Escape(str) == IF str = <<>> THEN <<>> ELSE EscapeChar(Head(str)) \o Escape(Tail(str))

\* the value an expression node denotes
evalExpr(node, data) ==
  CASE node.type = "Path" ->
         (IF node.Parts = <<>> THEN Undefined ELSE Lookup(data, node.Parts[1]))
    [] node.type \in {"Number", "Boolean"} -> node.Original
    [] node.type = "String" -> node.Value
    [] OTHER -> Undefined

\* the name a partial statement asks for
partialName(node) ==
  CASE node.type = "Path" -> node.Original
    [] node.type = "String" -> node.Value
    [] node.type \in {"Number", "Boolean"} -> node.Original
    [] OTHER -> Undefined

RECURSIVE evalStatements(_, _, _, _)
RECURSIVE evalProgram(_, _, _)

\* one statement: the text it writes and the error it raises
evalStatement(node, data, tpl) ==
  CASE node.type = "Content" -> [out |-> node.Value, err |-> nil]
    [] node.type = "Comment" -> [out |-> <<>>, err |-> nil]
    [] node.type = "Mustache" -> [out |-> Escape(evalExpr(node.Path, data)), err |-> nil]
    [] node.type = "Block" ->
         (IF evalExpr(node.Path, data) # Undefined
          THEN evalProgram(node.Program, data, tpl)
          ELSE evalProgram(node.Inverse, data, tpl))
    [] node.type = "Partial" ->
         The({ IF name \notin DOMAIN tpl.partials \/ tpl.partials[name] = NULL
               THEN [out |-> <<>>, err |-> "Partial not found"]
               ELSE The({ IF r.err # nil
                          THEN [out |-> <<>>, err |-> "Partial parse error"]
                          ELSE evalProgram(r.node, data, tpl)
                        : r \in {Parse(tpl.partials[name].source)} })
             : name \in {partialName(node.Name)} })
    [] OTHER -> [out |-> <<>>, err |-> nil]

\* statements k.. of a program, appended to the buffer; the first error aborts
evalStatements(stmts, k, data, tpl) ==
  IF k > Len(stmts)
  THEN [out |-> <<>>, err |-> nil]
  ELSE The({ IF a.err # nil
             THEN a
             ELSE The({ [out |-> a.out \o b.out, err |-> b.err]
                      : b \in {evalStatements(stmts, k + 1, data, tpl)} })
           : a \in {evalStatement(stmts[k], data, tpl)} })

evalProgram(program, data, tpl) ==
  IF program.type # "Program"
  THEN [out |-> <<>>, err |-> nil]
  ELSE evalStatements(program.Statements, 1, data, tpl)

(***************************************************************************)
(* Template (template.go): [source, program, helpers, partials].  The     *)
(* registries are maps from names to values, nil where nothing is          *)
(* registered.  A call returns [tpl, result, err, outcome]; outcome is     *)
(* "returned", "panic" (the call panicked) or "blocked".                   *)
(***************************************************************************)
Names == {<<"a">>, <<"b">>}

\* non-nil helper functions
HelperValues == {"h1", "h2"}

PartialSources == {<<"p">>, <<"q">>}

NewTemplate(source) ==
  [source |-> source, program |-> NULL,
   helpers |-> [n \in Names |-> nil], partials |-> [n \in Names |-> NULL]]

NewPartial(name, source) == [name |-> name, source |-> source]

Call(tpl, result, err, outcome) ==
  [tpl |-> tpl, result |-> result, err |-> err, outcome |-> outcome]

\* tpl.program, err = parser.Parse(tpl.source)
storeParsed(tpl, r) == [tpl EXCEPT !.program = r.node]

\* func (tpl *Template) Parse() error
TemplateParse(tpl) ==
  IF tpl.program # NULL
  THEN Call(tpl, <<>>, nil, "returned")
  ELSE The({ IF r.status = "need" THEN Call(tpl, <<>>, nil, "blocked")
             ELSE IF r.status = "panic" THEN Call(tpl, <<>>, nil, "panic")
             ELSE Call(storeParsed(tpl, r), <<>>, r.err, "returned")
           : r \in {Parse(tpl.source)} })

\* result assigned from the buffer written before the panic
recoveredBuffer(buf, err) == buf

\* the result ExecWith returns when the evaluation panicked with an error
\* after writing buf: errRecover sets err, result was never assigned
recovered(buf, err) == <<>>

\* func (tpl *Template) ExecWith(data, privData) (result string, err error)
ExecWith(tpl, data) ==
  The({ IF pr.outcome # "returned" THEN pr
        ELSE IF pr.err # nil THEN Call(pr.tpl, <<>>, pr.err, "returned")
        ELSE The({ IF ev.err # nil
                   THEN Call(pr.tpl, recovered(ev.out, ev.err), ev.err, "returned")
                   ELSE Call(pr.tpl, ev.out, nil, "returned")
                 : ev \in {evalProgram(pr.tpl.program, data, pr.tpl)} })
      : pr \in {TemplateParse(tpl)} })

\* the duplicate check left out: a registration always goes through
helperNeverRegistered(registry, name) == FALSE

\* if tpl.helpers[name] != nil
helperRegistered(registry, name) == registry[name] # nil

\* func (tpl *Template) RegisterHelper(name string, helper Helper)
RegisterHelper(tpl, name, helper) ==
  IF helperRegistered(tpl.helpers, name)
  THEN Call(tpl, <<>>, nil, "panic")
  ELSE Call([tpl EXCEPT !.helpers[name] = helper], <<>>, nil, "returned")

\* if tpl.partials[name] != nil
partialRegistered(registry, name) == registry[name] # NULL

\* func (tpl *Template) RegisterPartial(name string, partial string)
RegisterPartial(tpl, name, partial) ==
  IF partialRegistered(tpl.partials, name)
  THEN Call(tpl, <<>>, nil, "panic")
  ELSE Call([tpl EXCEPT !.partials[name] = NewPartial(name, partial)], <<>>, nil,
            "returned")

\* the package-level registry after init(): the builtin helpers
BuiltinNames == {<<"i", "f">>, <<"u", "n", "l", "e", "s", "s">>, <<"w", "i", "t", "h">>,
                 <<"e", "a", "c", "h">>}

initHelpers ==
  [n \in Names \cup BuiltinNames |-> IF n \in BuiltinNames THEN "builtin" ELSE nil]

\* func RegisterHelper(name string, helper Helper): [helpers, outcome]
GlobalRegisterHelper(registry, name, helper) ==
  IF helperRegistered(registry, name)
  THEN [helpers |-> registry, outcome |-> "panic"]
  ELSE [helpers |-> [registry EXCEPT ![name] = helper], outcome |-> "returned"]

(***************************************************************************)
(* Helpers (helper.go).  A value of the input data is a record tagged with *)
(* its Go kind.  HelperParams is [eval, params, hash]: eval is the         *)
(* evaluation visitor, here [block, ctx, log]: the current block (its      *)
(* Program and Inverse, nil when absent), the context stack and the        *)
(* programs evaluated so far, each with the context it was evaluated in.   *)
(***************************************************************************)
Nil == [kind |-> "nil"]
BoolV(b) == [kind |-> "bool", b |-> b]
StrV(s) == [kind |-> "string", s |-> s]
IntV(n) == [kind |-> "int", n |-> n]
FloatV(f) == [kind |-> "float64", f |-> f]
SliceV(items) == [kind |-> "slice", items |-> items]
MapV(m) == [kind |-> "map", m |-> m]
Struct == [kind |-> "struct"]

\* IsTruth(value): (truth, ok); nil, false, the empty string, the empty
\* sequence, the empty map and numeric zero are falsy
IsTruth(v) ==
  [ok |-> TRUE,
   truth |-> CASE v.kind = "nil" -> FALSE
               [] v.kind = "bool" -> v.b
               [] v.kind = "string" -> v.s # <<>>
               [] v.kind = "int" -> v.n # 0
               [] v.kind = "float64" -> v.f # 0
               [] v.kind = "slice" -> v.items # <<>>
               [] v.kind = "map" -> DOMAIN v.m # {}
               [] OTHER -> TRUE]

NewHelperParams(eval, params, hash) == [eval |-> eval, params |-> params, hash |-> hash]

\* Get parameter at given position
At(p, pos) == IF Len(p.params) > pos THEN p.params[pos + 1] ELSE Nil

\* Get hash option by name
Option(p, name) == IF name \in DOMAIN p.hash THEN p.hash[name] ELSE Nil

\* Returns true if first param is truthy
TruthFirstParam(p) ==
  IF At(p, 0) = Nil THEN FALSE
  ELSE IF ~IsTruth(At(p, 0)).ok THEN FALSE
  ELSE IsTruth(At(p, 0)).truth

\* Returns true if 'includeZero' option is set and first param is the number 0:
\* b, ok := p.Option("includeZero").(bool); nb, ok := p.At(0).(int)
IsIncludableZero(p) ==
  /\ Option(p, "includeZero").kind = "bool"
  /\ Option(p, "includeZero").b
  /\ At(p, 0).kind = "int"
  /\ At(p, 0).n = 0

RECURSIVE Accept(_, _)

\* Evaluate block: the HelperParams after the call
EvaluateBlock(p) ==
  IF p.eval.block # NULL /\ p.eval.block.Program # nil
  THEN [p EXCEPT !.eval = Accept(p.eval, p.eval.block.Program)]
  ELSE p

\* Evaluate inverse
EvaluateInverse(p) ==
  IF p.eval.block # NULL /\ p.eval.block.Inverse # nil
  THEN [p EXCEPT !.eval = Accept(p.eval, p.eval.block.Inverse)]
  ELSE p

PushCtx(p, ctx) == [p EXCEPT !.eval.ctx = Append(@, ctx)]

PopCtx(p) == [p EXCEPT !.eval.ctx = SubSeq(@, 1, Len(@) - 1)]

\* EvaluateBlockWith() without p.PopCtx()
EvaluateBlockWithNoPop(p, ctx) == EvaluateBlock(PushCtx(p, ctx))

\* Evaluate block with given context
EvaluateBlockWith(p, ctx) == PopCtx(EvaluateBlock(PushCtx(p, ctx)))

ifHelper(p) ==
  IF IsIncludableZero(p) \/ TruthFirstParam(p) THEN EvaluateBlock(p) ELSE EvaluateInverse(p)

unlessHelper(p) ==
  IF IsIncludableZero(p) \/ TruthFirstParam(p) THEN EvaluateInverse(p) ELSE EvaluateBlock(p)

withHelper(p) ==
  IF TruthFirstParam(p) THEN EvaluateBlockWith(p, At(p, 0)) ELSE EvaluateInverse(p)

RECURSIVE eachItem(_, _, _)
\* the loops of eachHelper over items[i..]
eachItem(p, items, i) ==
  IF i > Len(items) THEN p ELSE eachItem(EvaluateBlockWith(p, items[i]), items, i + 1)

\* keys is val.MapKeys(): the keys of a map in the order the run time gives
eachHelper(p, keys) ==
  IF ~TruthFirstParam(p) THEN EvaluateInverse(p)
  ELSE IF At(p, 0).kind = "slice" THEN eachItem(p, At(p, 0).items, 1)
  ELSE IF At(p, 0).kind = "map"
  THEN eachItem(p, [k \in 1..Len(keys) |-> At(p, 0).m[keys[k]]], 1)
  ELSE p

\* the helper registered under name, called on p
callHelper(name, p) ==
  CASE name = "if" -> ifHelper(p)
    [] name = "unless" -> unlessHelper(p)
    [] name = "with" -> withHelper(p)
    [] OTHER -> eachHelper(p, <<>>)

\* programs that consist of one block statement: `{{#with 1}}..{{else}}..{{/with}}`
\* and `{{#each [1, "a"]}}..{{else}}..{{/each}}`
NestedPrograms == {"WithOne", "EachTwo"}
NestedName(program) == IF program = "WithOne" THEN "with" ELSE "each"
NestedParams(program) ==
  IF program = "WithOne" THEN <<IntV(1)>> ELSE <<SliceV(<<IntV(1), StrV(<<"a">>)>>)>>
NestedBlock == [Program |-> "Program", Inverse |-> "Inverse"]

\* program.Accept(p.eval): the program is evaluated in the current context; a
\* block statement in it becomes the current block while its helper runs
Accept(eval, program) ==
  The({ IF program \in NestedPrograms
        THEN [callHelper(NestedName(program),
                         NewHelperParams([e EXCEPT !.block = NestedBlock],
                                         NestedParams(program), <<>>)).eval
                EXCEPT !.block = eval.block]
        ELSE e
      : e \in {[eval EXCEPT !.log =
                  Append(@, [program |-> program, ctx |-> eval.ctx[Len(eval.ctx)]])]} })

(***************************************************************************)
(* Private data frames (data_frame.go).  A frame is [parent, data]; frames *)
(* live in a heap, a sequence indexed by their address, 0 being the nil   *)
(* pointer.  data maps every key to its value, Absent for a key the map    *)
(* does not hold; an entry may hold the nil value.                         *)
(***************************************************************************)
FrameKeys == {"x", "index", "key", "first", "last"}
Absent == [kind |-> "absent"]

\* Instanciate a new private data frame
NewDataFrame == [parent |-> 0, data |-> [k \in FrameKeys |-> Absent]]

\* Copy() that copies no entry
CopyEmpty(heap, p) == [NewDataFrame EXCEPT !.parent = p]

\* Returns a new private data frame, with parent set to self (the frame at p)
Copy(heap, p) == [NewDataFrame EXCEPT !.data = heap[p].data, !.parent = p]

\* Set a data value
Set(frame, key, val) == [frame EXCEPT !.data[key] = val]

\* Get a data value: nil for a key the map does not hold
Get(frame, key) == IF frame.data[key] = Absent THEN Nil ELSE frame.data[key]

\* NewIterDataFrame() with `last` set to i == length
NewIterDataFrameLate(heap, p, length, i, key) ==
  Set(Set(Set(Set(Copy(heap, p), "index", IntV(i)), "key", key), "first", BoolV(i = 0)),
      "last", BoolV(i = length))

NewIterDataFrame(heap, p, length, i, key) ==
  Set(Set(Set(Set(Copy(heap, p), "index", IntV(i)), "key", key), "first", BoolV(i = 0)),
      "last", BoolV(i = length - 1))

(***************************************************************************)
(* Inputs: the concatenations of at most MaxFrags fragments.               *)
(***************************************************************************)
MaxFrags == 3
MaxTplFrags == 2
MaxPipeFrags == 2

Fragments ==
  { <<"x">>,
    <<"{">>,
    <<"\\">>,
    <<"x", "\\">>,
    <<"\n">>,
    <<"}", "}">>,
    <<"{", "{", "a", "}", "}">>,
    <<"{", "{", "a", " ", "1", " ", "\"", "s", "\"", "}", "}">>,
    <<"{", "{", "!", "c", "}", "}">>,
    <<"{", "{", ">", "a", "}", "}">>,
    <<"{", "{", "#", "a", "}", "}">>,
    <<"{", "{", "/", "a", "}", "}">>,
    <<"{", "{", "/", "b", "}", "}">>,
    <<"{", "{", "/", "a", "}", "}", "}", "}">>,
    <<"{", "{", "e", "l", "s", "e", "}", "}">>,
    <<"{", "{", "^", "}", "}">>,
    <<"{", "{", "^", "a", "}", "}">>,
    <<"{", "{", "e", "l", "s", "e", " ", "a", "}", "}">>,
    <<"{", "{", "{", "{", "a", "}", "}", "}", "}">>,
    <<"{", "{", "{", "{", "/", "a", "}", "}", "}", "}">>,
    <<"{", "{", "{", "{", "/", "b", "}", "}", "}", "}">>,
    <<"{", "{", "a">>,
    <<"{", "{", "!", "c">>,
    <<"{", "{", "\"", "s">> }

FragSeqs(n) == UNION {[1..k -> Fragments] : k \in 0..n}

RECURSIVE Concat(_)
Concat(fs) == IF fs = <<>> THEN <<>> ELSE Head(fs) \o Concat(Tail(fs))

InputsOf(n) == {Concat(fs) : fs \in FragSeqs(n)}

\* the input data of a rendering: a map from field names to strings
DataSet ==
  { [n \in {} |-> <<>>],
    [n \in {<<"a">>} |-> <<"v", "<">>] }

(***************************************************************************)
(* State.                                                                  *)
(*   src, parsed       parser.Parse as a function of its input             *)
(*   input .. presult  the lexer goroutine, the token channel and the      *)
(*                     parser of one parser.Parse(input) call              *)
(*   tpl, helpers, first, ret                                              *)
(*                     a Template, the package-level helper registry, the  *)
(*                     first registration call made under each name and    *)
(*                     what the last call returned                         *)
(***************************************************************************)
VARIABLES src, parsed,
          input, l, nextFunc, pending, chan, sent, ptoks, presult,
          tpl, helpers, first, ret,
          hcall, hret,
          frames, fret

varsParse == <<src, parsed>>
varsPipe == <<input, l, nextFunc, pending, chan, sent, ptoks, presult>>
varsTpl == <<tpl, helpers, first, ret>>
varsHelper == <<hcall, hret>>
varsFrame == <<frames, fret>>
vars == <<varsParse, varsPipe, varsTpl, varsHelper, varsFrame>>

NoResult == [status |-> "none"]
NoCall == [op |-> "none", name |-> <<>>, dup |-> FALSE, result |-> <<>>, err |-> nil,
           outcome |-> "none"]
NoHelperCall == [name |-> "none"]
NoFrameCall == [op |-> "none"]
NoFirst ==
  [helpers |-> [n \in Names |-> nil], partials |-> [n \in Names |-> NULL],
   global |-> initHelpers]

\* the parts of the state a specification does not use
IdleParse == src = <<>> /\ parsed = NoResult
IdlePipe ==
  /\ input = <<>> /\ l = NewLexer(<<>>) /\ nextFunc = "nil" /\ pending = <<>>
  /\ chan = <<>> /\ sent = <<>> /\ ptoks = <<>> /\ presult = NoResult
IdleTpl ==
  /\ tpl = NewTemplate(<<>>) /\ helpers = initHelpers /\ first = NoFirst /\ ret = NoCall

IdleHelper == hcall = NoHelperCall /\ hret = NoResult
IdleFrame == frames = <<>> /\ fret = NoFrameCall

(***************************************************************************)
(* parser.Parse(src) as a function.                                        *)
(***************************************************************************)
InitParse == src \in InputsOf(MaxFrags) /\ parsed = NoResult /\ IdlePipe /\ IdleTpl /\ IdleHelper /\ IdleFrame

DoParse ==
  /\ parsed.status = "none"
  /\ parsed' = Parse(src)
  /\ UNCHANGED <<src, varsPipe, varsTpl, varsHelper, varsFrame>>

NextParse == DoParse

SpecParse == InitParse /\ [][NextParse]_vars

(***************************************************************************)
(* parser.Parse on one mustache: an open delimiter, at most MaxAtoms       *)
(* pieces of expression text and a close delimiter.                        *)
(***************************************************************************)
MaxAtoms == 2

Foo == <<"f", "o", "o">>

Openers ==
  { <<"{", "{">>, <<"{", "{", "~">>, <<"{", "{", "{">>, <<"{", "{", "~", "{">>,
    <<"{", "{", "{", "{">> }

Closers ==
  { <<"}", "}">>, <<"~", "}", "}">>, <<"}", "}", "}">>, <<"}", "~", "}", "}">>,
    <<"}", "}", "}", "}">> }

Atoms ==
  { Foo, <<".", ".", "/">>, <<"t", "h", "i", "s", "/">>, <<"t", "h", "i", "s">>, <<".">>,
    <<"@">>, <<"@", ".", ".", "/">>, <<" ">>, <<"1", "2", "3">>, <<"-", "1">>, <<"+", "1">>, <<"1", ".", "5">>,
    <<"1", "e", "3">>, <<"0", "x", "1", "F">> }

AtomSeqs(n) == UNION {[1..k -> Atoms] : k \in 0..n}

ExprInputs ==
  {o \o Concat(as) \o c : o \in Openers, as \in AtomSeqs(MaxAtoms), c \in Closers}

InitExpr == src \in ExprInputs /\ parsed = NoResult /\ IdlePipe /\ IdleTpl /\ IdleHelper /\ IdleFrame

SpecExpr == InitExpr /\ [][NextParse]_vars

\* one mustache `{{foo ...}}` of at most MaxSegs parameters and hash segments,
\* and templates without a mustache
MaxSegs == 2
HashSegs ==
  {<<" ", "a", "=", "1">>,
   <<" ", "a", "=", "2">>,
   <<" ", "b", "=", "1">>,
   <<" ", "b", "=", "\"", "s", "\"">>,
   <<" ", "c">>,
   <<" ", "1">>,
   <<" ", "a", "=">>,
   <<" ", "(", "c", " ", "a", "=", "1", ")">>,
   <<" ", "a", "=", "(", "c", ")">>}
SegSeqs(n) == UNION {[1..k -> HashSegs] : k \in 0..n}
HashInputs == {<<"{", "{">> \o Foo \o Concat(ss) \o <<"}", "}">> : ss \in SegSeqs(MaxSegs)}
PlainInputs == {<<"x">>, <<"x", "{", "{", "!", "c", "}", "}">>}
InitHash == src \in HashInputs \cup PlainInputs /\ parsed = NoResult /\ IdlePipe /\ IdleTpl /\ IdleHelper /\ IdleFrame

SpecHash == InitHash /\ [][NextParse]_vars


(***************************************************************************)
(* parser.Parse(input) step by step.  New() starts the lexer goroutine     *)
(* (Scan); the goroutine runs one state function at a time and blocks in   *)
(* emit() until the parser receives; the parser blocks in NextToken()      *)
(* until the lexer sends.  pending holds the tokens the current state      *)
(* function has still to send, chan the token offered on the unbuffered    *)
(* channel, sent every token offered so far, ptoks every token NextToken   *)
(* has returned.                                                           *)
(***************************************************************************)
Init ==
  /\ input \in InputsOf(MaxPipeFrags)
  /\ l = NewLexer(input)
  /\ nextFunc = "lexContent"
  /\ pending = <<>> /\ chan = <<>> /\ sent = <<>> /\ ptoks = <<>>
  /\ presult = NoResult
  /\ IdleParse /\ IdleTpl /\ IdleHelper /\ IdleFrame

\* one iteration of the loop of run(): l.nextFunc = l.nextFunc(l)
LexAct(fn) ==
  /\ nextFunc = fn
  /\ pending = <<>> /\ chan = <<>>
  /\ \E s \in {lexStep(fn, l)} :
       /\ l' = s.l
       /\ pending' = s.out
       /\ nextFunc' = s.next
  /\ UNCHANGED <<input, chan, sent, ptoks, presult, varsParse, varsTpl, varsHelper, varsFrame>>

LexContent == LexAct("lexContent")
LexEscapedOpenMustache == LexAct("lexEscapedOpenMustache")
LexOpenMustache == LexAct("lexOpenMustache")
LexCloseMustache == LexAct("lexCloseMustache")
LexExpression == LexAct("lexExpression")
LexComment == LexAct("lexComment")
LexIgnorable == LexAct("lexIgnorable")
LexString == LexAct("lexString")
LexNumber == LexAct("lexNumber")
LexIdentifier == LexAct("lexIdentifier")

\* a receive that leaves the token on the channel
receivedKept(c) == c

\* the channel after a receive
received(c) == <<>>

\* l.tokens <- Token{...}: the lexer offers its next token and blocks
Emit ==
  /\ pending # <<>> /\ chan = <<>>
  /\ chan' = <<Head(pending)>>
  /\ sent' = Append(sent, Head(pending))
  /\ pending' = Tail(pending)
  /\ UNCHANGED <<input, l, nextFunc, ptoks, presult, varsParse, varsTpl, varsHelper, varsFrame>>

\* result := <-l.tokens, called from ensure(): the parser takes the token
NextToken ==
  /\ presult.status = "none"
  /\ ParseTokens(ptoks).status = "need"
  /\ chan # <<>>
  /\ ptoks' = Append(ptoks, chan[1])
  /\ chan' = received(chan)
  /\ UNCHANGED <<input, l, nextFunc, pending, sent, presult, varsParse, varsTpl, varsHelper, varsFrame>>

\* ParseProgram() returns (or panics) with the tokens it has received
ParserReturn ==
  /\ presult.status = "none"
  /\ \E r \in {ParseTokens(ptoks)} :
       /\ r.status # "need"
       /\ presult' = r
  /\ UNCHANGED <<input, l, nextFunc, pending, chan, sent, ptoks, varsParse, varsTpl, varsHelper, varsFrame>>

Next ==
  \/ LexContent \/ LexEscapedOpenMustache \/ LexOpenMustache \/ LexCloseMustache
  \/ LexExpression \/ LexComment \/ LexIgnorable \/ LexString \/ LexNumber
  \/ LexIdentifier
  \/ Emit \/ NextToken \/ ParserReturn

Spec == Init /\ [][Next]_vars

(***************************************************************************)
(* A Template: Parse, Exec / ExecWith and registrations in any order.      *)
(***************************************************************************)
TplPartialNames == {<<"a">>}
TplPartialSources == {<<"p">>}

InitTpl ==
  /\ tpl \in {NewTemplate(source) : source \in InputsOf(MaxTplFrags)}
  /\ helpers = initHelpers /\ first = NoFirst /\ ret = NoCall
  /\ IdleParse /\ IdlePipe /\ IdleHelper /\ IdleFrame

Returned(op, name, dup, c) ==
  [op |-> op, name |-> name, dup |-> dup, result |-> c.result, err |-> c.err,
   outcome |-> c.outcome]

\* the first registration call made under a name
noteFirst(reg, name, value, none) ==
  IF reg[name] = none THEN [reg EXCEPT ![name] = value] ELSE reg

ParseAct ==
  /\ \E c \in {TemplateParse(tpl)} :
       /\ tpl' = c.tpl
       /\ ret' = Returned("Parse", <<>>, FALSE, c)
  /\ UNCHANGED <<helpers, first, varsParse, varsPipe, varsHelper, varsFrame>>

\* Exec(data) is ExecWith(data, nil)
ExecWithIn(dataSet) ==
  \E data \in dataSet :
    /\ \E c \in {ExecWith(tpl, data)} :
         /\ tpl' = c.tpl
         /\ ret' = Returned("ExecWith", <<>>, FALSE, c)
    /\ UNCHANGED <<helpers, first, varsParse, varsPipe, varsHelper, varsFrame>>

ExecWithAct == ExecWithIn(DataSet)

RegisterHelperAct ==
  \E name \in Names, helper \in HelperValues :
    /\ tpl' = RegisterHelper(tpl, name, helper).tpl
    /\ first' = [first EXCEPT !.helpers = noteFirst(first.helpers, name, helper, nil)]
    /\ ret' = Returned("RegisterHelper", name, first.helpers[name] # nil,
                       RegisterHelper(tpl, name, helper))
    /\ UNCHANGED <<helpers, varsParse, varsPipe, varsHelper, varsFrame>>

RegisterPartialIn(names, sources) ==
  \E name \in names, partial \in sources :
    /\ tpl' = RegisterPartial(tpl, name, partial).tpl
    /\ first' = [first EXCEPT !.partials =
                   noteFirst(first.partials, name, NewPartial(name, partial), NULL)]
    /\ ret' = Returned("RegisterPartial", name, first.partials[name] # NULL,
                       RegisterPartial(tpl, name, partial))
    /\ UNCHANGED <<helpers, varsParse, varsPipe, varsHelper, varsFrame>>

RegisterPartialAct == RegisterPartialIn(Names, PartialSources)
RegisterPartialOne == RegisterPartialIn(TplPartialNames, TplPartialSources)

GlobalRegisterHelperAct ==
  \E name \in Names \cup BuiltinNames, helper \in HelperValues :
    /\ helpers' = GlobalRegisterHelper(helpers, name, helper).helpers
    /\ first' = [first EXCEPT !.global = noteFirst(first.global, name, helper, nil)]
    /\ ret' = [NoCall EXCEPT !.op = "GlobalRegisterHelper", !.name = name,
                             !.dup = first.global[name] # nil,
                             !.outcome = GlobalRegisterHelper(helpers, name, helper).outcome]
    /\ UNCHANGED <<tpl, varsParse, varsPipe, varsHelper, varsFrame>>

NextTpl == ParseAct \/ ExecWithAct \/ RegisterPartialOne

SpecTpl == InitTpl /\ [][NextTpl]_vars

\* templates of one mustache between runs of whitespace, with and without `~`
MaxWs == 1
WsRuns == UNION {[1..n -> {" ", "\t", "\n"}] : n \in 0..MaxWs}
StripOpeners == {<<"{", "{">>, <<"{", "{", "~">>}
StripClosers == {<<"}", "}">>, <<"~", "}", "}">>}
StripLines ==
  <<"1", "\n", "{", "{", "f", "o", "o", "~", "}", "}", " ", "\n", "\n", " ", "2", "3", "\n",
    "{", "{", "b", "a", "r", "}", "}", "4">>
StripInputs ==
  {pre \o o \o Foo \o c \o post :
     pre \in WsRuns, o \in StripOpeners, c \in StripClosers, post \in WsRuns}
    \cup {StripLines}
FooData == [n \in {Foo} |-> <<"b", "a", "r", "<">>]
NoData == [n \in {} |-> <<>>]
StripDataSet == {NoData, FooData}

InitStrip ==
  /\ tpl \in {NewTemplate(source) : source \in StripInputs}
  /\ helpers = initHelpers /\ first = NoFirst /\ ret = NoCall
  /\ IdleParse /\ IdlePipe /\ IdleHelper /\ IdleFrame

ExecWithStrip == ExecWithIn(StripDataSet)

NextStrip == ParseAct \/ ExecWithStrip

SpecStrip == InitStrip /\ [][NextStrip]_vars

\* the registries alone, on one template
InitReg ==
  /\ tpl = NewTemplate(<<>>)
  /\ helpers = initHelpers /\ first = NoFirst /\ ret = NoCall
  /\ IdleParse /\ IdlePipe /\ IdleHelper /\ IdleFrame

NextReg == RegisterHelperAct \/ RegisterPartialAct \/ GlobalRegisterHelperAct

SpecReg == InitReg /\ [][NextReg]_vars

(***************************************************************************)
(* The built-in block helpers, each called once on one HelperParams.       *)
(***************************************************************************)
MaxItems == 2
ItemValues == {IntV(1), StrV(<<"a">>)}
MapKeys == {"a", "b"}
Slices == UNION {[1..n -> ItemValues] : n \in 0..MaxItems}
Maps == UNION {[K -> ItemValues] : K \in SUBSET MapKeys}
Values ==
  {Nil, BoolV(TRUE), BoolV(FALSE), StrV(<<>>), StrV(<<"a">>), IntV(0), IntV(1),
   FloatV(0), FloatV(1), Struct}
    \cup {SliceV(items) : items \in Slices} \cup {MapV(m) : m \in Maps}
Hashes ==
  {[n \in {} |-> Nil]}
    \cup {[n \in {"includeZero"} |-> v] : v \in {BoolV(TRUE), BoolV(FALSE), StrV(<<"a">>)}}
Blocks ==
  {[Program |-> "Program", Inverse |-> "Inverse"], [Program |-> "Program", Inverse |-> nil]}
    \cup {[Program |-> program, Inverse |-> "Inverse"] : program \in NestedPrograms}
Root == MapV([k \in {"a"} |-> IntV(1)])
BlockHelpers == {"if", "unless", "with", "each"}

\* the orders in which the keys of a map can be enumerated
KeyOrders(v) ==
  IF v.kind = "map"
  THEN {ks \in [1..Cardinality(DOMAIN v.m) -> DOMAIN v.m] :
          \A k \in DOMAIN v.m : \E i \in DOMAIN ks : ks[i] = k}
  ELSE {<<>>}

InitHelper ==
  /\ hcall \in
       {[name |-> name, p |-> NewHelperParams([block |-> b, ctx |-> <<Root>>, log |-> <<>>], ps, h)] :
          name \in BlockHelpers, b \in Blocks,
          ps \in {<<>>} \cup {<<v>> : v \in Values}, h \in Hashes}
  /\ hret = NoResult
  /\ IdleParse /\ IdlePipe /\ IdleTpl /\ IdleFrame

IfHelperAct ==
  /\ hcall.name = "if" /\ hret = NoResult
  /\ hret' = [status |-> "done", p |-> ifHelper(hcall.p)]
  /\ UNCHANGED <<hcall, varsParse, varsPipe, varsTpl, varsFrame>>

UnlessHelperAct ==
  /\ hcall.name = "unless" /\ hret = NoResult
  /\ hret' = [status |-> "done", p |-> unlessHelper(hcall.p)]
  /\ UNCHANGED <<hcall, varsParse, varsPipe, varsTpl, varsFrame>>

WithHelperAct ==
  /\ hcall.name = "with" /\ hret = NoResult
  /\ hret' = [status |-> "done", p |-> withHelper(hcall.p)]
  /\ UNCHANGED <<hcall, varsParse, varsPipe, varsTpl, varsFrame>>

EachHelperAct ==
  /\ hcall.name = "each" /\ hret = NoResult
  /\ \E keys \in KeyOrders(At(hcall.p, 0)) :
       hret' = [status |-> "done", p |-> eachHelper(hcall.p, keys)]
  /\ UNCHANGED <<hcall, varsParse, varsPipe, varsTpl, varsFrame>>

NextHelper == IfHelperAct \/ UnlessHelperAct \/ WithHelperAct \/ EachHelperAct

SpecHelper == InitHelper /\ [][NextHelper]_vars

(***************************************************************************)
(* The lexer goroutine with a consumer that keeps calling NextToken().     *)
(* ptoks holds the tokens the consumer has received.                       *)
(***************************************************************************)
MaxLexFrags == 1
EscapedInputs ==
  {<<"\\", "{", "{", "a", "}", "}">>, <<"x", "\\", "{", "{", "a", "}", "}">>}

Bar == <<"b", "a", "r">>
WsChars == {" ", "\t", "\n"}
\* two identifiers separated by one or two whitespace characters
TwoIDs(ws) == <<"{", "{">> \o Foo \o ws \o Bar \o <<"}", "}">>
TwoIDInputs == {TwoIDs(ws) : ws \in [1..1 -> WsChars] \cup [1..2 -> WsChars]}

InitLex ==
  /\ input \in InputsOf(MaxLexFrags) \cup EscapedInputs \cup TwoIDInputs
  /\ l = NewLexer(input)
  /\ nextFunc = "lexContent"
  /\ pending = <<>> /\ chan = <<>> /\ sent = <<>> /\ ptoks = <<>>
  /\ presult = NoResult
  /\ IdleParse /\ IdleTpl /\ IdleHelper /\ IdleFrame

\* result := <-l.tokens
ConsumerNextToken ==
  /\ chan # <<>>
  /\ ptoks' = Append(ptoks, chan[1])
  /\ chan' = received(chan)
  /\ UNCHANGED <<input, l, nextFunc, pending, sent, presult, varsParse, varsTpl, varsHelper, varsFrame>>

NextLex ==
  \/ LexContent \/ LexEscapedOpenMustache \/ LexOpenMustache \/ LexCloseMustache
  \/ LexExpression \/ LexComment \/ LexIgnorable \/ LexString \/ LexNumber
  \/ LexIdentifier
  \/ Emit \/ ConsumerNextToken

\* the goroutine runs whenever it can and the consumer keeps receiving
SpecLex == InitLex /\ [][NextLex]_vars /\ WF_vars(NextLex)

(***************************************************************************)
(* Data frames: a root frame, then Copy, NewIterDataFrame and Set in any   *)
(* order on any frame.  fret is the last call made.                        *)
(***************************************************************************)
MaxFrames == 2
MaxLength == 2
SetKeys == {"x", "index"}
SetVals == {IntV(7), StrV(<<"a">>)}
IterKeyVals == {Nil, StrV(<<"k">>)}

InitFrame ==
  /\ frames = <<NewDataFrame>> /\ fret = NoFrameCall
  /\ IdleParse /\ IdlePipe /\ IdleTpl /\ IdleHelper

CopyAct ==
  \E p \in DOMAIN frames :
    /\ Len(frames) < MaxFrames
    /\ frames' = Append(frames, Copy(frames, p))
    /\ fret' = [op |-> "Copy", recv |-> p, result |-> Len(frames) + 1]
    /\ UNCHANGED <<varsParse, varsPipe, varsTpl, varsHelper>>

NewIterDataFrameAct ==
  \E p \in DOMAIN frames, length \in 1..MaxLength, key \in IterKeyVals :
    \E i \in 0..(length - 1) :
      /\ Len(frames) < MaxFrames
      /\ frames' = Append(frames, NewIterDataFrame(frames, p, length, i, key))
      /\ fret' = [op |-> "NewIterDataFrame", recv |-> p, result |-> Len(frames) + 1,
                  length |-> length, i |-> i, key |-> key]
      /\ UNCHANGED <<varsParse, varsPipe, varsTpl, varsHelper>>

SetAct ==
  \E p \in DOMAIN frames, key \in SetKeys, val \in SetVals :
    /\ frames' = [frames EXCEPT ![p] = Set(frames[p], key, val)]
    /\ fret' = [op |-> "Set", recv |-> p, key |-> key, val |-> val]
    /\ UNCHANGED <<varsParse, varsPipe, varsTpl, varsHelper>>

NextFrame == CopyAct \/ NewIterDataFrameAct \/ SetAct

SpecFrame == InitFrame /\ [][NextFrame]_vars

(***************************************************************************)
(* Sources the properties speak of.                                        *)
(***************************************************************************)
OpenBlockA == <<"{", "{", "#", "a", "}", "}">>
CloseBlockA == <<"{", "{", "/", "a", "}", "}">>
CloseBlockB == <<"{", "{", "/", "b", "}", "}">>
OpenRawA == <<"{", "{", "{", "{", "a", "}", "}", "}", "}">>
CloseRawB == <<"{", "{", "{", "{", "/", "b", "}", "}", "}", "}">>
ElseTag == <<"{", "{", "e", "l", "s", "e", "}", "}">>
CaretTag == <<"{", "{", "^", "}", "}">>
MustacheA == <<"{", "{", "a", "}", "}">>
PartialA == <<"{", "{", ">", "a", "}", "}">>
CommentC == <<"{", "{", "!", "c", "}", "}">>
UnclosedComment == <<"{", "{", "!", "c">>

\* block bodies holding no block tag
PlainBodies == {<<>>, <<"x">>, MustacheA, CommentC}

\* `{{#a}}body{{/b}}`, `{{#a}}body{{/b}}}}` and `{{{{a}}}}body{{{{/b}}}}`
MismatchedBlocks ==
  {OpenBlockA \o body \o CloseBlockB : body \in PlainBodies}
    \cup {OpenBlockA \o body \o CloseBlockB \o <<"}", "}">> : body \in PlainBodies}
    \cup {OpenRawA \o body \o CloseRawB : body \in PlainBodies}

\* `{{#a}}body{{/a}}`
EqualNameBlocks == {OpenBlockA \o body \o CloseBlockA : body \in PlainBodies}

\* `{{#a}}{{else}}{{/a}}` and `{{#a}}{{^}}{{/a}}`
InverseBlocks == {OpenBlockA \o inv \o CloseBlockA : inv \in {ElseTag, CaretTag}}

\* the text holds no `{{`
NoOpen(str) == \A k \in 1..(Len(str) - 1) : ~(str[k] = "{" /\ str[k + 1] = "{")

HasKind(toks, kind) == \E k \in 1..Len(toks) : toks[k].kind = kind

(***************************************************************************)
(* Properties.                                                             *)
(***************************************************************************)
\* C1: parsing a block whose close tag names another helper than its open
\* tag, ordinary or raw, returns an error and no Program.
C1_MismatchedNamesFail ==
  (parsed.status # "none" /\ src \in MismatchedBlocks)
    => /\ parsed.status = "returned"
       /\ parsed.err # nil
       /\ parsed.node = NULL

C1_Witness ==
  /\ src = OpenBlockA \o CloseBlockB \o <<"}", "}">>
  /\ parsed.status = "returned"
  /\ parsed.err = "Open and end blocks names mismatch"

\* C2: `{{#a}}body{{/a}}`, both names equal and both tags ending `}}`, parses
\* to a Program of one BlockStatement that carries the body as its Program.
C2_EqualNamesParse ==
  (parsed.status # "none" /\ src \in EqualNameBlocks)
    => /\ parsed.status = "returned"
       /\ parsed.err = nil
       /\ parsed.node.type = "Program"
       /\ Len(parsed.node.Statements) = 1
       /\ parsed.node.Statements[1].type = "Block"
       /\ parsed.node.Statements[1].Program.type = "Program"

\* C3: a block with one `{{else}}` or `{{^}}` parses to a BlockStatement with
\* a body Program and an inverse Program.
C3_InverseParses ==
  (parsed.status # "none" /\ src \in InverseBlocks)
    => /\ parsed.status = "returned"
       /\ parsed.err = nil
       /\ parsed.node.type = "Program"
       /\ Len(parsed.node.Statements) = 1
       /\ parsed.node.Statements[1].type = "Block"
       /\ parsed.node.Statements[1].Program.type = "Program"
       /\ parsed.node.Statements[1].Inverse.type = "Program"

\* C4: Parse returns a Program only after it consumed the whole token stream,
\* EOF included; it returns an error when the lexer reports an Error token.
C4_WholeStreamOrError ==
  parsed.status = "returned"
    => /\ parsed.err = nil => /\ parsed.node.type = "Program"
                              /\ parsed.fetched = Len(Scan(src).tokens)
       /\ HasKind(Scan(src).tokens, TokenError) => parsed.err # nil

\* C5: once parsing the source of a template failed, the template holds no
\* Program and every Exec / ExecWith returns an error and an empty result.
C5_FailedParseKeepsNoProgram ==
  (ret.op \in {"Parse", "ExecWith"} /\ Parse(tpl.source).status = "returned"
     /\ Parse(tpl.source).err # nil)
    => /\ tpl.program = NULL
       /\ ret.op = "ExecWith" => (ret.err # nil /\ ret.result = <<>>)

\* C6: whenever ExecWith returns a non-nil error, the result it returns is
\* the empty string.
C6_ErrorMeansEmptyResult ==
  (ret.op = "ExecWith" /\ ret.outcome = "returned" /\ ret.err # nil)
    => ret.result = <<>>

\* a rendering that had written "x" when the partial was found missing
C6_Witness ==
  /\ tpl.source = <<"x">> \o PartialA
  /\ ret.op = "ExecWith"
  /\ ret.outcome = "returned"
  /\ ret.err = "Partial not found"

C8_ContentOnly ==
  (ret.op = "ExecWith" /\ NoOpen(tpl.source))
    => /\ Scan(tpl.source).tokens =
            (IF tpl.source = <<>> THEN <<>>
             ELSE <<[kind |-> TokenContent, pos |-> 0, val |-> tpl.source]>>)
              \o <<[kind |-> TokenEOF, pos |-> Len(tpl.source), val |-> <<>>]>>
       /\ tpl.program =
            NewProgram(IF tpl.source = <<>> THEN <<>>
                       ELSE <<NewContentStatement(tpl.source)>>)
       /\ ret.outcome = "returned"
       /\ ret.err = nil
       /\ ret.result = tpl.source

C8_Witness ==
  /\ tpl.source = <<"x", "\\", "}", "}">>
  /\ ret.op = "ExecWith"
  /\ ret.result = tpl.source

\* C9: an Error token is the last token the lexer sends; when the input ends
\* inside an expression, a comment or a string the lexer sends no EOF, and
\* its last token is the Error.
InsideFuncs == {"lexExpression", "lexComment", "lexString"}

C9_UnclosedEndsWithError ==
  /\ \A k \in 1..Len(sent) :
       sent[k].kind = TokenError
         => (k = Len(sent) /\ pending = <<>> /\ nextFunc = "nil")
  /\ Scan(input).last \in InsideFuncs
       => /\ ~HasKind(sent, TokenEOF)
          /\ (nextFunc = "nil" /\ pending = <<>>)
               => (sent # <<>> /\ sent[Len(sent)].kind = TokenError)

C9_Witness ==
  /\ input = <<"x">> \o UnclosedComment
  /\ nextFunc = "nil"
  /\ Kinds(sent) = <<TokenContent, TokenError>>
  /\ presult.status = "returned"

\* C10: the tokens NextToken returned are the tokens the lexer sent, in
\* order, none lost and none twice; their start positions never decrease;
\* and whatever the interleaving, the tokens sent are those of the input and
\* the parser returns what Parse(input) returns.
IsPrefix(a, b) == Len(a) <= Len(b) /\ a = SubSeq(b, 1, Len(a))

CloseRawA == <<"{", "{", "{", "{", "/", "a", "}", "}", "}", "}">>
RawBlocks == {OpenRawA \o body \o CloseRawA : body \in PlainBodies \ {<<>>}}

\* the text between the open and the end tag of a raw block of RawBlocks
RawBody(str) == SubSeq(str, Len(OpenRawA) + 1, Len(str) - Len(CloseRawA))

\* C11: the text between `{{{{a}}}}` and `{{{{/a}}}}` is lexed as content
\* only (no Open or Comment token for a `{{...}}` inside it) and the raw block
\* parses to one BlockStatement whose Program is the one content statement
\* holding that text verbatim.
C11_RawBlockVerbatim ==
  (parsed.status # "none" /\ src \in RawBlocks)
    => /\ ~HasKind(Scan(src).tokens, TokenOpen)
       /\ ~HasKind(Scan(src).tokens, TokenComment)
       /\ parsed.status = "returned"
       /\ parsed.err = nil
       /\ parsed.node.type = "Program"
       /\ Len(parsed.node.Statements) = 1
       /\ parsed.node.Statements[1].type = "Block"
       /\ parsed.node.Statements[1].Program =
            NewProgram(<<NewContentStatement(RawBody(src))>>)

\* the kind the claim gives each close delimiter
CloseKindOf(c) ==
  CASE c \in {<<"}", "}">>, <<"~", "}", "}">>} -> TokenClose
    [] c \in {<<"}", "}", "}">>, <<"}", "~", "}", "}">>} -> TokenCloseUnescaped
    [] c = <<"}", "}", "}", "}">> -> TokenCloseRawBlock

\* C12: after an identifier each close delimiter is sent as one token, of
\* kind Close for `}}` and `~}}`, CloseUnescaped for `}}}` and `}~}}`,
\* CloseRawBlock for `}}}}`, whose value is the delimiter with its `~`; the
\* lexer sends no Error token, and EOF follows.
C12_CloseDelimiters ==
  \A o \in Openers, c \in Closers :
    (parsed.status # "none" /\ src = o \o Foo \o c)
      => /\ ~HasKind(Scan(src).tokens, TokenError)
         /\ Len(Scan(src).tokens) = 4
         /\ Scan(src).tokens[2] = [kind |-> TokenID, pos |-> Len(o), val |-> Foo]
         /\ Scan(src).tokens[3] =
              [kind |-> CloseKindOf(c), pos |-> Len(o) + Len(Foo), val |-> c]
         /\ Scan(src).tokens[4].kind = TokenEOF

\* content text (holding no brace and no backslash) before an escaped `{{a}}`
EscapePrefixes == {<<>>, <<"x">>, <<"\n">>}

\* the values of the Content tokens of toks, concatenated
RECURSIVE ContentOf(_)
ContentOf(toks) ==
  IF toks = <<>> THEN <<>>
  ELSE (IF Head(toks).kind = TokenContent THEN Head(toks).val ELSE <<>>)
         \o ContentOf(Tail(toks))

\* C13: for `\{{a}}` after content text, or at the very start of the input,
\* the lexer sends Content tokens and EOF only; the content is the text with
\* the backslash dropped and `{{a}}` kept literally.
C13_EscapedOpenIsContent ==
  \A pre \in EscapePrefixes :
    (parsed.status # "none" /\ src = pre \o <<"\\">> \o MustacheA)
      => /\ \A k \in 1..Len(Scan(src).tokens) :
              Scan(src).tokens[k].kind \in {TokenContent, TokenEOF}
         /\ ContentOf(Scan(src).tokens) = pre \o MustacheA

\* the kinds of the tokens that open a mustache
OpenKinds ==
  {TokenOpenRawBlock, TokenOpenUnescaped, TokenOpenBlock, TokenOpenEndBlock,
   TokenOpenPartial, TokenInverse, TokenOpenInverse, TokenOpenInverseChain, TokenOpen}

\* offset q is followed by `\s*~?}}`
ClosesAt(in, q) ==
  HasPrefix(in, reOpt(in, RunEnd(in, q, WhiteSpace), "~"), CLOSE_MUSTACHE)

\* what `{{` at offset p means, most specific first: `{{{{`, then by the
\* character after `{{~?`: `{`, `#`, `/`, `>`, `^` (alone in its mustache or
\* not), `else` (alone in its mustache or not), anything else
OpenKindAt(in, p) ==
  IF HasPrefix(in, p, <<"{", "{", "{", "{">>) THEN TokenOpenRawBlock
  ELSE IF CharAt(in, reOpt(in, p + 2, "~")) = "{" THEN TokenOpenUnescaped
  ELSE IF CharAt(in, reOpt(in, p + 2, "~")) = "#" THEN TokenOpenBlock
  ELSE IF CharAt(in, reOpt(in, p + 2, "~")) = "/" THEN TokenOpenEndBlock
  ELSE IF CharAt(in, reOpt(in, p + 2, "~")) = ">" THEN TokenOpenPartial
  ELSE IF CharAt(in, reOpt(in, p + 2, "~")) = "^"
  THEN (IF ClosesAt(in, reOpt(in, p + 2, "~") + 1) THEN TokenInverse
        ELSE TokenOpenInverse)
  ELSE IF HasPrefix(in, RunEnd(in, reOpt(in, p + 2, "~"), WhiteSpace),
                    <<"e", "l", "s", "e">>)
  THEN (IF ClosesAt(in, RunEnd(in, reOpt(in, p + 2, "~"), WhiteSpace) + 4)
        THEN TokenInverse
        ELSE TokenOpenInverseChain)
  ELSE TokenOpen

\* C14: the state function for `{{` runs only where the input starts with
\* `{{`, and every opening token the lexer sends has the kind of the most
\* specific meaning of the `{{` at its position: raw-block open before
\* unescaped open, block, end-block and partial open, inverse before
\* open-inverse and open-inverse-chain, plain open last.
C14_OpenPrecedence ==
  /\ nextFunc = "lexOpenMustache" => HasPrefix(input, l.pos, OPEN_MUSTACHE)
  /\ nextFunc # "panic"
  /\ \A k \in 1..Len(sent) :
       sent[k].kind \in OpenKinds
         => /\ HasPrefix(input, sent[k].pos, OPEN_MUSTACHE)
            /\ sent[k].kind = OpenKindAt(input, sent[k].pos)

\* `{{{{a}}}}{{else}}` lexed to its end
C14_Witness ==
  /\ input = OpenRawA \o ElseTag
  /\ nextFunc = "nil"
  /\ pending = <<>>
  /\ Kinds(sent) = <<TokenOpenRawBlock, TokenID, TokenCloseRawBlock, TokenInverse, TokenEOF>>

\* `{{../foo}}`, `{{@../foo}}` and `{{this/foo}}`
ParentPath == <<"{", "{", ".", ".", "/">> \o Foo \o <<"}", "}">>
DataParentPath == <<"{", "{", "@", ".", ".", "/">> \o Foo \o <<"}", "}">>
ThisPath == <<"{", "{", "t", "h", "i", "s", "/">> \o Foo \o <<"}", "}">>

\* C15: `{{../foo}}`, `{{@../foo}}` and `{{this/foo}}` each parse to one
\* mustache whose path has the single segment foo; the leading `../` gives
\* depth 1 and no segment, the leading `this/` is dropped, and the path of
\* `{{@../foo}}` is a data path.
C15_PathPrefixes ==
  (parsed.status # "none" /\ src \in {ParentPath, DataParentPath, ThisPath})
    => /\ parsed.status = "returned"
       /\ parsed.err = nil
       /\ parsed.node.type = "Program"
       /\ Len(parsed.node.Statements) = 1
       /\ parsed.node.Statements[1].type = "Mustache"
       /\ parsed.node.Statements[1].Path.type = "Path"
       /\ parsed.node.Statements[1].Path.Parts = <<Foo>>
       /\ parsed.node.Statements[1].Path.Depth = (IF src = ThisPath THEN 0 ELSE 1)
       /\ parsed.node.Statements[1].Path.Data = (src = DataParentPath)

\* `{{^a}}body{{/a}}`
OpenInverseA == <<"{", "{", "^", "a", "}", "}">>
OpenInverseBlocks == {OpenInverseA \o body \o CloseBlockA : body \in PlainBodies}

\* the statements of the body between the two tags of a block of
\* OpenInverseBlocks, as Parse returns them for the body alone
InverseBody(str) ==
  Parse(SubSeq(str, Len(OpenInverseA) + 1, Len(str) - Len(CloseBlockA))).node.Statements

\* C16: `{{^a}}body{{/a}}` parses to one BlockStatement that has no body
\* Program and whose inverse Program holds the statements of the body.
C16_OpenInverseBlock ==
  (parsed.status # "none" /\ src \in OpenInverseBlocks)
    => /\ parsed.status = "returned"
       /\ parsed.err = nil
       /\ parsed.node.type = "Program"
       /\ Len(parsed.node.Statements) = 1
       /\ parsed.node.Statements[1].type = "Block"
       /\ parsed.node.Statements[1].Program = NULL
       /\ parsed.node.Statements[1].Inverse.type = "Program"
       /\ parsed.node.Statements[1].Inverse.Statements = InverseBody(src)

\* the programs a helper call evaluated, in order
Programs(p) == [i \in DOMAIN p.eval.log |-> p.eval.log[i].program]
NumericZero(v) == (v.kind = "int" /\ v.n = 0) \/ (v.kind = "float64" /\ v.f = 0)
FullBlock(p) == p.eval.block = [Program |-> "Program", Inverse |-> "Inverse"]

\* C17: for every first parameter v and every value of the includeZero option,
\* `if` evaluates exactly one of body and inverse: the body iff v is truthy or
\* includeZero is true and v is numeric zero, otherwise the inverse; `unless`
\* evaluates the opposite branch.
C17_IfUnlessIncludeZero ==
  (hret # NoResult /\ hcall.name \in {"if", "unless"} /\ FullBlock(hcall.p)) =>
    Programs(hret.p) =
      <<IF (hcall.name = "if") =
             (IsTruth(At(hcall.p, 0)).truth
                \/ (Option(hcall.p, "includeZero") = BoolV(TRUE) /\ NumericZero(At(hcall.p, 0))))
        THEN "Program" ELSE "Inverse">>

\* C18: `each` on a value that is falsy, or truthy but neither a sequence nor a
\* keyed map, evaluates the inverse block exactly once and the body zero times.
C18_EachNotIterable ==
  (hret # NoResult /\ hcall.name = "each" /\ FullBlock(hcall.p)
     /\ (~IsTruth(At(hcall.p, 0)).truth \/ At(hcall.p, 0).kind \notin {"slice", "map"})) =>
    Programs(hret.p) = <<"Inverse">>

NumberForms ==
  {<<"1", "2", "3">>, <<"-", "1">>, <<"+", "1">>, <<"1", ".", "5">>, <<"1", "e", "3">>,
   <<"0", "x", "1", "F">>}

\* C20: a number literal in any form the lexer tokenizes as Number (signed
\* integer, decimal, exponent, hex) is accepted by the parser and becomes a
\* number literal node, as a plain integer does.
C20_NumberForms ==
  \A a \in NumberForms :
    (parsed # NoResult /\ src = <<"{", "{">> \o a \o <<"}", "}">>
       /\ Kinds(Scan(src).tokens) = <<TokenOpen, TokenNumber, TokenClose, TokenEOF>>) =>
      /\ parsed.err = nil
      /\ Len(parsed.node.Statements) = 1
      /\ parsed.node.Statements[1].Path.type = "Number"
      /\ parsed.node.Statements[1].Path.Original = a

\* what the template pre o foo c post renders: the whitespace on a side with
\* `~` is removed, the whitespace on a side without is kept
StripRendering(pre, o, c, post, data) ==
  (IF o = <<"{", "{", "~">> THEN <<>> ELSE pre)
    \o Escape(Lookup(data, Foo))
    \o (IF c = <<"~", "}", "}">> THEN <<>> ELSE post)

\* C19: a `~` on the left of a mustache's opening delimiter removes the
\* whitespace before the tag, a `~` on the right of its closing delimiter the
\* whitespace after the tag up to the next non-whitespace character, and a
\* side without `~` keeps its whitespace: the rendering returned is the one
\* this gives for the data rendered, and `1\n{{foo~}} \n\n 23\n{{bar}}4`
\* renders `1\n23\n4` with no data.
C19_WhitespaceControl ==
  (ret.op = "ExecWith") =>
    \E data \in StripDataSet :
      /\ ExecWith(tpl, data).result = ret.result
      /\ (tpl.source = StripLines /\ data = NoData) =>
           ret.result = <<"1", "\n", "2", "3", "\n", "4">>
      /\ \A pre \in WsRuns, o \in StripOpeners, c \in StripClosers, post \in WsRuns :
           (tpl.source = pre \o o \o Foo \o c \o post) =>
             ret.result = StripRendering(pre, o, c, post, data)

\* the last token the lexer emits for str
LastToken(str) == Scan(str).tokens[Len(Scan(str).tokens)]

\* C21: during any Parse every token access finds its token in the lookahead
\* buffer: the parser never asks the lexer for a token after EOF or Error (a
\* call that would block forever) and never reads the buffer beyond its
\* length, so Parse returns, with a Program or an error, on every input.
C21_ParseAlwaysReturns ==
  parsed # NoResult =>
    /\ parsed.status = "returned"
    /\ parsed.fetched <= Len(Scan(src).tokens)
    /\ parsed.node # NULL \/ parsed.err # nil

\* `x{{a`: the parser has received the Error token that ends the stream and
\* has returned the error
C21_Witness ==
  /\ src = <<"x", "{", "{", "a">>
  /\ LastToken(src).kind = TokenError
  /\ parsed.status = "returned"
  /\ parsed.fetched = Len(Scan(src).tokens)
  /\ parsed.err # nil

\* C22: whenever Parse has returned, the lexer goroutine has terminated or
\* terminates without a further NextToken call: it is never blocked sending a
\* token on the channel that nobody will receive.
C22_NoLexerLeftBlocked ==
  presult.status # "none" => chan = <<>>

LastKinds == {TokenEOF, TokenError}

\* the lexer has left run() and every token it emitted has been received
LexerDone == nextFunc = "nil" /\ pending = <<>> /\ chan = <<>>

\* EOF or Error is the last token emitted and no other, and no state function
\* panics
LexerEndsOnce ==
  /\ nextFunc # "panic"
  /\ \A k \in 1..Len(sent) : sent[k].kind \in LastKinds => (k = Len(sent) /\ pending = <<>>)
  /\ \A k \in 1..Len(pending) : pending[k].kind \in LastKinds => k = Len(pending)
  /\ (nextFunc = "nil") =>
       (IF pending = <<>> THEN sent # <<>> /\ sent[Len(sent)].kind \in LastKinds
        ELSE pending[Len(pending)].kind \in LastKinds)
  /\ (sent # <<>> /\ sent[Len(sent)].kind \in LastKinds) => nextFunc = "nil"

\* C23: for every finite input, the consumer calling NextToken again and
\* again, the lexer state machine terminates after finitely many tokens, the
\* last of which, and only the last, is EOF or Error; none of its panics is
\* reachable.
C23_LexerTerminates == []LexerEndsOnce /\ <>[]LexerDone

\* `{{a` lexed to its end: Open, ID, then the Error token of the unclosed
\* expression, all received
C23_Witness ==
  /\ input = <<"{", "{", "a">>
  /\ LexerDone
  /\ Kinds(ptoks) = <<TokenOpen, TokenID, TokenError>>

FooA1 == <<"{", "{">> \o Foo \o <<" ", "a", "=", "1", "}", "}">>

\* C24: the parser uses at most 2 tokens of lookahead: the buffer of fetched
\* and unconsumed tokens never holds more than 2, and it holds a second token
\* only where an expression is tested for a hash segment (`ID` followed by
\* `=`): a template without expression is parsed with one token of lookahead.
C24_TwoTokensLookahead ==
  parsed # NoResult =>
    /\ parsed.maxbuf <= 2
    /\ src \in PlainInputs => parsed.maxbuf <= 1
    /\ src \in HashInputs => parsed.maxbuf = 2

\* `{{foo a=1}}`: the hash segment is recognised from the tokens ID and `=`
C24_Witness ==
  /\ src = FooA1
  /\ parsed.status = "returned" /\ parsed.err = nil
  /\ parsed.maxbuf = 2
  /\ Len(parsed.node.Statements[1].Hash.Pairs) = 1
  /\ parsed.node.Statements[1].Hash.Pairs[1].Key = <<"a">>

\* the keys of the hash of the mustache parsed, in the order of its pairs
HashKeys(program) ==
  IF program.Statements[1].Hash = NULL THEN <<>>
  ELSE [k \in DOMAIN program.Statements[1].Hash.Pairs |->
          program.Statements[1].Hash.Pairs[k].Key]

\* C30: keys within one hash are unique: a successful parse never yields a
\* hash holding two pairs with the same key, and the pairs keep their source
\* order (`{{foo a=1 b=1}}` gives the keys a, b).
C30_HashKeysUnique ==
  (src \in HashInputs /\ parsed.status = "returned" /\ parsed.err = nil) =>
    /\ \A i, j \in DOMAIN HashKeys(parsed.node) :
         i # j => HashKeys(parsed.node)[i] # HashKeys(parsed.node)[j]
    /\ src = <<"{", "{">> \o Foo \o <<" ", "a", "=", "1", " ", "b", "=", "1", "}", "}">>
         => HashKeys(parsed.node) = <<<<"a">>, <<"b">>>>

\* C29: in expression mode a run of whitespace (space, tab or newline)
\* between two identifiers is skipped without a token and separates them into
\* two ID tokens: no ID token contains a whitespace character, and
\* `{{foo bar}}` and `{{foo\nbar}}` give the kinds Open, ID, ID, Close.
C29_WhitespaceSeparatesIDs ==
  /\ \A k \in 1..Len(sent) :
       sent[k].kind = TokenID => \A c \in 1..Len(sent[k].val) : sent[k].val[c] \notin WsChars
  /\ (input \in TwoIDInputs /\ LexerDone) =>
       Kinds(sent) = <<TokenOpen, TokenID, TokenID, TokenClose, TokenEOF>>

\* `{{#each items}}{{this}}{{/each}}` and the data items = [a, b]
EachItems ==
  <<"{", "{", "#", "e", "a", "c", "h", " ", "i", "t", "e", "m", "s", "}", "}",
    "{", "{", "t", "h", "i", "s", "}", "}", "{", "{", "/", "e", "a", "c", "h", "}", "}">>
ItemsData == [n \in {<<"i", "t", "e", "m", "s">>} |-> <<"a", "b">>]

\* C25: `each` over a sequence of n >= 1 elements evaluates the body exactly
\* n times, in index order, each time with the element pushed as the current
\* context, and never the inverse; `{{#each items}}{{this}}{{/each}}` with
\* items = [a, b] renders `ab`.
C25_EachOverSequence ==
  (hret # NoResult /\ hcall.name = "each" /\ FullBlock(hcall.p)
     /\ At(hcall.p, 0).kind = "slice" /\ At(hcall.p, 0).items # <<>>) =>
    /\ hret.p.eval.log =
         [i \in DOMAIN At(hcall.p, 0).items |->
            [program |-> "Program", ctx |-> At(hcall.p, 0).items[i]]]
    /\ ExecWith(NewTemplate(EachItems), ItemsData).err = nil
    /\ ExecWith(NewTemplate(EachItems), ItemsData).result = <<"a", "b">>

\* C26: the context stack is LIFO and balanced across block helpers:
\* EvaluateBlockWith pushes one context, evaluates the body with it on top and
\* pops it, so after `with` or `each` returns (any number of iterations, with
\* or without a block helper nested in the body) the context stack is the
\* stack before the helper was invoked.
C26_ContextStackBalanced ==
  (hret # NoResult /\ hcall.name \in {"with", "each"}) =>
    /\ hret.p.eval.ctx = hcall.p.eval.ctx
    /\ \A k \in DOMAIN hret.p.eval.log :
         hret.p.eval.log[k].program = "Inverse" => hret.p.eval.log[k].ctx = Root
    /\ (hcall.name = "with" /\ TruthFirstParam(hcall.p)) =>
         hret.p.eval.log[1].ctx = At(hcall.p, 0)

\* `each` over two elements whose body holds an `each` over two elements: six
\* programs evaluated, the stack back to the root context
C26_Witness ==
  /\ hcall.name = "each"
  /\ hcall.p.eval.block.Program = "EachTwo"
  /\ At(hcall.p, 0) = SliceV(<<IntV(1), StrV(<<"a">>)>>)
  /\ hret # NoResult
  /\ Len(hret.p.eval.log) = 6
  /\ hret.p.eval.ctx = <<Root>>

IterKeys == {"index", "key", "first", "last"}

\* the step a call of Copy or NewIterDataFrame makes: one frame more, whose
\* parent is the receiver and which holds the receiver's entries
FreshChildStep ==
  /\ Len(frames') = Len(frames) + 1
  /\ fret'.result = Len(frames')
  /\ frames'[fret'.result].parent = fret'.recv
  /\ \A k \in FrameKeys :
       /\ frames[fret'.recv].data[k] # Absent => frames'[fret'.result].data[k] # Absent
       /\ (fret'.op = "Copy" \/ k \notin IterKeys) =>
            Get(frames'[fret'.result], k) = Get(frames[fret'.recv], k)
  /\ \A f \in DOMAIN frames : frames'[f] = frames[f]

\* the step a call of Set makes: the entries of no other frame change
SetStep ==
  /\ DOMAIN frames' = DOMAIN frames
  /\ Get(frames'[fret'.recv], fret'.key) = fret'.val
  /\ \A f \in DOMAIN frames :
       /\ frames'[f].parent = frames[f].parent
       /\ f # fret'.recv => frames'[f] = frames[f]

C28_IterationFrame ==
  fret.op = "NewIterDataFrame" =>
    /\ Get(frames[fret.result], "index") = IntV(fret.i)
    /\ Get(frames[fret.result], "key") = fret.key
    /\ Get(frames[fret.result], "first") = BoolV(fret.i = 0)
    /\ Get(frames[fret.result], "last") = BoolV(fret.i = fret.length - 1)
    /\ \A k \in FrameKeys \ IterKeys :
         Get(frames[fret.result], k) = Get(frames[fret.recv], k)
    /\ \A e \in {"first", "last"} :
         Cardinality({i \in 0..(fret.length - 1) :
                        Get(NewIterDataFrame(frames, fret.recv, fret.length, i, fret.key), e)
                          = BoolV(TRUE)}) = 1

\* the second of two iterations: not first, last, over a frame holding x = 7
C28_Witness ==
  /\ fret.op = "NewIterDataFrame"
  /\ fret.length = 2 /\ fret.i = 1
  /\ Get(frames[fret.recv], "x") = IntV(7)
  /\ Get(frames[fret.result], "x") = IntV(7)
  /\ Get(frames[fret.result], "first") = BoolV(FALSE)
  /\ Get(frames[fret.result], "last") = BoolV(TRUE)
====
